---- MODULE Spec2Model ----
(***************************************************************************)
(* Verification model of the terminal-bot repository: the channel policy   *)
(* store (toggle.js), the firewall store (commands/firewall.js), the       *)
(* prefixed-message dispatcher and the terminal renderer (index.js), the   *)
(* storage message handler (storage/head.js, storage/cmds.js) and the hack *)
(* handler (commands/sudo/hack.js).                                        *)
(*                                                                         *)
(* Text is modelled as a sequence of pieces.  Text typed by a user is a    *)
(* sequence of one-character pieces; a literal of the source is one piece. *)
(***************************************************************************)
EXTENDS Integers, Sequences, FiniteSets, TLC

\* ------------------------------------------------------------------------
\* Universe of the model
\* ------------------------------------------------------------------------
Users == {"u1", "u2"}
BotUser == "bot"
Guilds == {"g1", "g2"}
\* The guild whose traffic the dispatcher specification follows.
DispatchGuilds == {"g1"}
DispatchChannels == {"c1"}
Channels == {"c1", "c2"}
NoGuild == "noguild"
DmChannel == "dm"

\* Largest value of the clock (ms) the model lets Date.now() reach.
MaxClock == 600
\* Amounts of time that may pass between two events.
Delays == {599, 600}

\* ------------------------------------------------------------------------
\* Text helpers (String.prototype methods used by the source)
\* ------------------------------------------------------------------------
IsSpace(ch) == ch \in {" ", "\n", "\t"}

LowerOf(ch) ==
  CASE ch = "F" -> "f"
    [] ch = "H" -> "h"
    [] ch = "S" -> "s"
    [] ch = "C" -> "c"
    [] OTHER -> ch

ToLowerCase(s) == [i \in 1..Len(s) |-> LowerOf(s[i])]

StartsWith(s, p) == Len(s) >= Len(p) /\ SubSeq(s, 1, Len(p)) = p

Slice(s, n) == SubSeq(s, n + 1, Len(s))

RECURSIVE TrimStart(_)
TrimStart(s) == IF s # <<>> /\ IsSpace(Head(s)) THEN TrimStart(Tail(s)) ELSE s

RECURSIVE TrimEnd(_)
TrimEnd(s) ==
  IF s # <<>> /\ IsSpace(s[Len(s)]) THEN TrimEnd(SubSeq(s, 1, Len(s) - 1)) ELSE s

Trim(s) == TrimEnd(TrimStart(s))

\* s.split(/\s+/): the pieces between maximal runs of white space.
RECURSIVE SplitWsAcc(_, _, _)
SplitWsAcc(s, cur, acc) ==
  IF s = <<>> THEN Append(acc, cur)
  ELSE IF IsSpace(Head(s))
       THEN SplitWsAcc(TrimStart(s), <<>>, Append(acc, cur))
       ELSE SplitWsAcc(Tail(s), Append(cur, Head(s)), acc)

SplitWs(s) == SplitWsAcc(s, <<>>, <<>>)

\* arr.join(sep)
RECURSIVE Join(_, _)
Join(arr, sep) ==
  IF arr = <<>> THEN <<>>
  ELSE IF Len(arr) = 1 THEN arr[1]
       ELSE arr[1] \o sep \o Join(Tail(arr), sep)

\* The backtick and backslash characters (a string literal cannot hold a
\* backtick, so the piece is named).
Backtick == "BACKTICK"
Backslash == "\\"

\* s.replace(/[backtick]/g, [backslash][backtick])
RECURSIVE EscapeBackticks(_)
EscapeBackticks(s) ==
  IF s = <<>> THEN <<>>
  ELSE (IF Head(s) = Backtick THEN <<Backslash, Backtick>> ELSE <<Head(s)>>)
         \o EscapeBackticks(Tail(s))

\* s.split(sep) for a one-character separator
RECURSIVE SplitOnAcc(_, _, _, _)
SplitOnAcc(s, sep, cur, acc) ==
  IF s = <<>> THEN Append(acc, cur)
  ELSE IF Head(s) = sep
       THEN SplitOnAcc(Tail(s), sep, <<>>, Append(acc, cur))
       ELSE SplitOnAcc(Tail(s), sep, Append(cur, Head(s)), acc)

SplitOn(s, sep) == SplitOnAcc(s, sep, <<>>, <<>>)

\* path.normalize (posix)
RECURSIVE NormalizeSegs(_, _, _)
NormalizeSegs(segs, acc, allowAboveRoot) ==
  IF segs = <<>> THEN acc
  ELSE LET sg == Head(segs) IN
       IF sg = <<>> \/ sg = <<".">>
       THEN NormalizeSegs(Tail(segs), acc, allowAboveRoot)
       ELSE IF sg = <<".", ".">>
            THEN IF acc # <<>> /\ acc[Len(acc)] # <<".", ".">>
                 THEN NormalizeSegs(Tail(segs), SubSeq(acc, 1, Len(acc) - 1), allowAboveRoot)
                 ELSE IF allowAboveRoot
                      THEN NormalizeSegs(Tail(segs), Append(acc, sg), allowAboveRoot)
                      ELSE NormalizeSegs(Tail(segs), acc, allowAboveRoot)
            ELSE NormalizeSegs(Tail(segs), Append(acc, sg), allowAboveRoot)

PathNormalize(p) ==
  IF p = <<>> THEN <<".">>
  ELSE LET isAbsolute == Head(p) = "/"
           trailing == p[Len(p)] = "/"
           body == Join(NormalizeSegs(SplitOn(p, "/"), <<>>, ~isAbsolute), <<"/">>)
       IN IF body = <<>>
          THEN (IF isAbsolute THEN <<"/">> ELSE IF trailing THEN <<".", "/">> ELSE <<".">>)
          ELSE (IF isAbsolute THEN <<"/">> ELSE <<>>) \o body
                 \o (IF trailing THEN <<"/">> ELSE <<>>)

\* ------------------------------------------------------------------------
\* Maps (JavaScript Map / object used as a map): functions with a domain
\* ------------------------------------------------------------------------
EmptyMap == <<>>
Has(m, k) == k \in DOMAIN m
MapSet(m, k, v) == [x \in (DOMAIN m) \cup {k} |-> IF x = k THEN v ELSE m[x]]
MapsTo(D, R) == UNION {[d -> R] : d \in SUBSET D}

\* ------------------------------------------------------------------------
\* State
\* ------------------------------------------------------------------------
VARIABLES
  disabledChannels,   \* toggle.js: Map guildId -> Set(channelId), the blacklist
  enabledChannels,    \* toggle.js: Map guildId -> Set(channelId), the whitelist
  clock,              \* Date.now()
  lastUsed,           \* index.js: Map userId -> time of the last accepted message
  cwdPerUser,         \* index.js: userId -> cwd
  historyPerUser,     \* index.js: userId -> list of message contents
  filesPerUser,       \* index.js: userId -> set of fake file names
  USER_STATE,         \* storage/cmds.js: Map userId -> [cwd]
  firewallMap,        \* commands/firewall.js: Map guildId -> Set(userId)
  everProtected,      \* history: the <<guildId, userId>> pairs that were ever protected
  protectRun,         \* history: length (up to 2) of the run of identical accepted
                      \* /firewall on interactions that ends with the last step
  rj,                 \* index.js: the sendTerminalResponse calls in flight, by job
  messages,           \* Discord: what each message sent by a job shows at present
  nick,               \* Discord: the nickname of each member
  hk,                 \* commands/sudo/hack.js: the hackHandler call in flight
  bg,                 \* commands/sudo/hack.js: the background nickname animation
  disk,               \* the filesystem under baseDir: file path -> size in bytes
  sv,                 \* storage/api.js: the saveFileFrom... calls in flight, by job
  cli,                \* deploy-commands.js / remove-commands.js: the utility process
  rot,                \* status.js: the presence rotation controller
  fx                  \* what the last step did to the outside: sends, replies, calls

policyVars == <<disabledChannels, enabledChannels>>
sessionVars == <<cwdPerUser, historyPerUser, filesPerUser>>
dispatchVars == <<clock, lastUsed, sessionVars, USER_STATE>>
firewallVars == <<firewallMap, everProtected, protectRun>>
renderVars == <<rj, messages>>
hackVars == <<hk, bg>>
storeVars == <<disk, sv>>
moduleVars == <<storeVars, cli, rot>>

\* ------------------------------------------------------------------------
\* Channel policy store and the /toggle handler (slash-commands/toggle.js)
\* ------------------------------------------------------------------------
\* isChannelEnabled consulting the whitelist before the blacklist
isChannelEnabled_WhitelistFirst(guildId, channelId) ==
  IF guildId = NoGuild THEN TRUE
  ELSE IF Has(enabledChannels, guildId) /\ Cardinality(enabledChannels[guildId]) > 0
       THEN channelId \in enabledChannels[guildId]
       ELSE ~(Has(disabledChannels, guildId) /\ channelId \in disabledChannels[guildId])

\* isChannelEnabled without the whitelist branch
isChannelEnabled_NoWhitelist(guildId, channelId) ==
  IF guildId = NoGuild THEN TRUE
  ELSE ~(Has(disabledChannels, guildId) /\ channelId \in disabledChannels[guildId])

isChannelEnabled(guildId, channelId) ==
  IF guildId = NoGuild THEN TRUE
  ELSE IF Has(disabledChannels, guildId) /\ channelId \in disabledChannels[guildId]
  THEN FALSE
  ELSE IF Has(enabledChannels, guildId) /\ Cardinality(enabledChannels[guildId]) > 0
       THEN channelId \in enabledChannels[guildId]
       ELSE TRUE

\* ensureDisabledSet(guildId): the map after the call
ensureDisabledSet(m, guildId) == IF Has(m, guildId) THEN m ELSE MapSet(m, guildId, {})

Reply(text) == [kind |-> "reply", text |-> text, ephemeral |-> TRUE]

\* A /toggle interaction: the invoking member's permissions, the guild it was
\* used in (NoGuild outside a server), the subcommand and the channel option.
TogglePerms == {"none", "ManageGuild", "Administrator"}
ToggleSubs == {"enable", "disable", "list"}
ToggleInteractions ==
  [guildId : Guilds \cup {NoGuild}, perms : TogglePerms, sub : ToggleSubs,
   channel : Channels, isText : BOOLEAN]
\* The /toggle traffic the dispatcher specification follows: a permitted
\* member switching the dispatch channel of the dispatch guild.
DispatchToggles ==
  { i \in ToggleInteractions :
      /\ i.guildId \in DispatchGuilds /\ i.channel \in DispatchChannels
      /\ i.perms = "ManageGuild" /\ i.isText /\ i.sub # "list" }

\* The disabled map after a handler without the permission test
ToggleDisabledAfter_NoPermCheck(i) ==
  IF i.guildId = NoGuild THEN disabledChannels
  ELSE IF i.sub \in {"enable", "disable"}
       THEN IF ~i.isText THEN disabledChannels
            ELSE LET ds == ensureDisabledSet(disabledChannels, i.guildId) IN
                 IF i.sub = "disable"
                 THEN MapSet(ds, i.guildId, ds[i.guildId] \cup {i.channel})
                 ELSE MapSet(ds, i.guildId, ds[i.guildId] \ {i.channel})
       ELSE disabledChannels

\* The disabled map after a handler whose enable branch deletes nothing
ToggleDisabledAfter_EnableKeeps(i) ==
  IF i.perms = "none" THEN disabledChannels
  ELSE IF i.guildId = NoGuild THEN disabledChannels
  ELSE IF i.sub \in {"enable", "disable"}
       THEN IF ~i.isText THEN disabledChannels
            ELSE LET ds == ensureDisabledSet(disabledChannels, i.guildId) IN
                 IF i.sub = "disable"
                 THEN MapSet(ds, i.guildId, ds[i.guildId] \cup {i.channel})
                 ELSE ds
       ELSE disabledChannels

\* The disabled map after the handler has run on interaction i.
ToggleDisabledAfter(i) ==
  IF i.perms = "none" THEN disabledChannels
  ELSE IF i.guildId = NoGuild THEN disabledChannels
  ELSE IF i.sub \in {"enable", "disable"}
       THEN IF ~i.isText THEN disabledChannels
            ELSE LET ds == ensureDisabledSet(disabledChannels, i.guildId) IN
                 IF i.sub = "disable"
                 THEN MapSet(ds, i.guildId, ds[i.guildId] \cup {i.channel})
                 ELSE MapSet(ds, i.guildId, ds[i.guildId] \ {i.channel})
       ELSE disabledChannels

\* The reply the handler gives on interaction i.
ToggleReply(i) ==
  IF i.perms = "none" THEN Reply("You need Manage Server or Administrator permission to use /toggle.")
  ELSE IF i.guildId = NoGuild THEN Reply("This command must be used in a server.")
  ELSE IF i.sub \in {"enable", "disable"}
       THEN IF ~i.isText THEN Reply("not a text channel")
            ELSE LET was == Has(disabledChannels, i.guildId)
                              /\ i.channel \in disabledChannels[i.guildId] IN
                 IF i.sub = "disable"
                 THEN (IF was THEN Reply("Commands are already disabled")
                       ELSE Reply("Commands have been disabled"))
                 ELSE (IF ~was THEN Reply("Commands are already enabled")
                       ELSE Reply("Commands have been enabled"))
       ELSE Reply("list")

ToggleInteraction(i) ==
  /\ disabledChannels' = ToggleDisabledAfter(i)
  /\ fx' = <<[kind |-> "toggle", i |-> i], ToggleReply(i)>>
  /\ UNCHANGED <<moduleVars, enabledChannels, dispatchVars, firewallVars, renderVars, nick, hackVars>>

\* ------------------------------------------------------------------------
\* Dispatcher: the messageCreate handler of index.js
\* ------------------------------------------------------------------------
PREFIX == <<"$">>
COOLDOWN == 600
HACK_DELAY_MS == 120
DEFAULT_DELAY_MS == 140

\* Names registered with register(...) in index.js
RegisteredCommands == {<<"h", "e", "l", "p">>, <<"p", "i", "n", "g">>, <<"s", "u", "d", "o">>}

\* The texts the dispatcher specification lets users type: a registered
\* command, a storage command, a bare prefix and a text without the prefix.
DispatchContents ==
  { <<"$", "p", "i", "n", "g">>,
    <<"$", "c", "d", " ", "a", " ", "b">>,
    <<"$", " ">>,
    <<"p", "i", "n", "g">> }

\* The texts of the command-lookup specification: each registered command,
\* the hack sub-invocation, sudo words that only begin with "hack", an
\* unknown command typed in capitals, a text with backticks, a bare prefix.
LookupContents ==
  { <<"$", "h", "e", "l", "p">>,
    <<"$", "p", "i", "n", "g", " ", Backtick, Backtick, "x">>,
    <<"$", "S", "u", "d", "o", " ", "H", "a", "c", "k", " ", "u", "2">>,
    <<"$", "s", "u", "d", "o", " ", "h", "a", "c", "k", "e", "r">>,
    <<"$", "s", "u", "d", "o", " ", "d", "a", "n", "c", "e">>,
    <<"$", "F", "s", " ", "x">>,
    <<"$", " ">> }

\* A messageCreate event.
Messages(gs, chs, cs) ==
  { m \in [author : Users \cup {BotUser}, guildId : gs \cup {NoGuild},
           channelId : chs \cup {DmChannel}, content : cs] :
      (m.guildId = NoGuild) <=> (m.channelId = DmChannel) }

IsBot(m) == m.author = BotUser

\* isOnCooldown with a window one millisecond short
isOnCooldown_ShortWindow(id) == Has(lastUsed, id) /\ (clock - lastUsed[id] < COOLDOWN - 1)

isOnCooldown(id) == Has(lastUsed, id) /\ (clock - lastUsed[id] < COOLDOWN)
setCooldown(id) == MapSet(lastUsed, id, clock)

CooldownNotice == <<"You are doing commands too fast - slow down.">>

CmdString(m) == Trim(Slice(m.content, Len(PREFIX)))
Args(m) == SplitWs(CmdString(m))
\* cmd taken from args[0] as typed
Cmd_AsTyped(m) == Args(m)[1]
Cmd(m) == ToLowerCase(Args(m)[1])
Rest(m) == Join(Tail(Args(m)), <<" ">>)

\* promptLine with replace() given a pattern without the g flag: only the
\* first backtick is escaped
PromptLine_FirstOnly(m) ==
  LET user == <<m.author>>
      pathStr == IF Has(cwdPerUser, m.author) THEN cwdPerUser[m.author]
                 ELSE <<"~/workspace">>
      c == m.content
      ticks == {i \in 1..Len(c) : c[i] = Backtick}
      first == CHOOSE i \in ticks : \A k \in ticks : i <= k
      escaped == IF ticks = {} THEN c
                 ELSE SubSeq(c, 1, first - 1) \o <<Backslash, Backtick>>
                        \o SubSeq(c, first + 1, Len(c))
  IN user \o <<"@", "terminal", ":">> \o pathStr \o <<"$", " ">> \o escaped

\* promptLine of the messageCreate handler; the session lookup happens after
\* ensureUser, so the cwd is the default unless one is already stored.
PromptLine(m) ==
  LET user == <<m.author>>
      pathStr == IF Has(cwdPerUser, m.author) THEN cwdPerUser[m.author]
                 ELSE <<"~/workspace">>
  IN user \o <<"@", "terminal", ":">> \o pathStr \o <<"$", " ">>
       \o EscapeBackticks(m.content)

\* Which way the dispatcher goes on message m.
DispatchOutcome(m) ==
  IF IsBot(m) THEN "ignored"
  ELSE IF ~StartsWith(m.content, PREFIX) THEN "ignored"
  ELSE IF m.guildId # NoGuild /\ ~isChannelEnabled(m.guildId, m.channelId) THEN "ignored"
  ELSE IF isOnCooldown(m.author) THEN "cooldown"
  ELSE IF CmdString(m) = <<>> THEN "empty"
  ELSE IF Cmd(m) \in RegisteredCommands THEN "invoke"
  ELSE "notfound"

Animate(m) ==
  IF Cmd(m) = <<"s", "u", "d", "o">> /\ StartsWith(ToLowerCase(Trim(Rest(m))), <<"h", "a", "c", "k">>)
  THEN TRUE
  ELSE Cmd(m) # <<"h", "e", "l", "p">>

Delay(m) ==
  IF Cmd(m) = <<"s", "u", "d", "o">> /\ StartsWith(ToLowerCase(Trim(Rest(m))), <<"h", "a", "c", "k">>)
  THEN HACK_DELAY_MS
  ELSE IF Cmd(m) = <<"h", "e", "l", "p">> THEN 0 ELSE DEFAULT_DELAY_MS

\* The code fence that opens and closes a rendered block.
FenceOpen == <<Backtick, Backtick, Backtick, "text", "\n">>
FenceClose == <<"\n", Backtick, Backtick, Backtick>>

Send(channelId, text) == [kind |-> "send", to |-> channelId, text |-> text]

\* What the dispatcher does to the outside on message m.
DispatchFx(m) ==
  LET o == DispatchOutcome(m) IN
  IF o = "cooldown" THEN <<Send(m.channelId, CooldownNotice)>>
  ELSE IF o = "invoke"
       THEN <<[kind |-> "invoke", cmd |-> Cmd(m), args |-> Tail(Args(m)), rest |-> Rest(m),
               promptLine |-> PromptLine(m), animate |-> Animate(m), delay |-> Delay(m),
               to |-> m.channelId]>>
  ELSE IF o = "notfound"
       THEN <<Send(m.channelId, FenceOpen \o Cmd(m) \o <<": command not found">> \o FenceClose)>>
  ELSE <<>>

\* ensureUser(id) followed by historyPerUser[id].push(content)
EnsuredCwd(id) == IF Has(cwdPerUser, id) THEN cwdPerUser ELSE MapSet(cwdPerUser, id, <<"~/workspace">>)
EnsuredFiles(id) ==
  IF Has(filesPerUser, id) THEN filesPerUser ELSE MapSet(filesPerUser, id, {"README.md", "notes.txt"})
PushedHistory(id, content) ==
  MapSet(historyPerUser, id,
         Append(IF Has(historyPerUser, id) THEN historyPerUser[id] ELSE <<>>, content))

Dispatch(m) ==
  LET o == DispatchOutcome(m) IN
  /\ lastUsed' = IF o \in {"empty", "invoke", "notfound"} THEN setCooldown(m.author) ELSE lastUsed
  /\ IF o \in {"invoke", "notfound"}
     THEN /\ cwdPerUser' = EnsuredCwd(m.author)
          /\ filesPerUser' = EnsuredFiles(m.author)
          /\ historyPerUser' = PushedHistory(m.author, m.content)
     ELSE UNCHANGED sessionVars

\* ------------------------------------------------------------------------
\* Storage message handler: initStorage.messageHandler (storage/head.js)
\* and handleMessageCommand (storage/cmds.js), up to the first await
\* ------------------------------------------------------------------------
StorageHandled ==
  { <<"s", "t", "o", "r", "a", "g", "e">>, <<"l", "s">>, <<"c", "d">>, <<"p", "w", "d">>,
    <<"u", "p", "l", "o", "a", "d">>, <<"r", "m">>,
    <<"s", "t", "o", "r", "a", "g", "e", "i", "n", "f", "o">> }

StorageParts(m) == SplitWs(Trim(Slice(m.content, Len(PREFIX))))
StorageCmd(m) == ToLowerCase(StorageParts(m)[1])
\* args handed to handleMessageCommand: parts after parts.shift()
StorageArgs(m) == Tail(StorageParts(m))
\* args.slice(1).join(' ').trim()
StorageOperand(m) ==
  IF StorageArgs(m) = <<>> THEN <<>> ELSE Trim(Join(Tail(StorageArgs(m)), <<" ">>))

\* messageHandler passes the message on to handleMessageCommand
StorageAccepts(m) ==
  /\ m.content # <<>>
  /\ ~IsBot(m)
  /\ StartsWith(m.content, PREFIX)
  /\ StorageCmd(m) \in StorageHandled

\* ensureState(userId)
ensureState(userId) ==
  IF Has(USER_STATE, userId) THEN USER_STATE ELSE MapSet(USER_STATE, userId, [cwd |-> <<".">>])

CdTarget(m) == PathNormalize(IF StorageOperand(m) = <<>> THEN <<".">> ELSE StorageOperand(m))

StorageStateAfter(m) ==
  IF ~StorageAccepts(m) THEN USER_STATE
  ELSE LET c == StorageCmd(m) IN
       IF c = <<"p", "w", "d">> \/ c = <<"l", "s">> THEN ensureState(m.author)
       ELSE IF c = <<"c", "d">>
            THEN IF StartsWith(CdTarget(m), <<".", ".">>)
                 THEN ensureState(m.author)
                 ELSE MapSet(ensureState(m.author), m.author, [cwd |-> CdTarget(m)])
            ELSE USER_STATE

Dm(userId, text) == [kind |-> "dm", to |-> userId, text |-> text]
ApiCall(fn, userId, arg) == [kind |-> "api", fn |-> fn, user |-> userId, arg |-> arg]

StorageFx(m) ==
  IF ~StorageAccepts(m) THEN <<>>
  ELSE LET c == StorageCmd(m)
           st == ensureState(m.author)[m.author]
       IN
       IF c = <<"s", "t", "o", "r", "a", "g", "e">> \/ c = <<"s", "t", "o", "r", "a", "g", "e", "i", "n", "f", "o">>
       THEN <<ApiCall("quotaRemaining", m.author, <<>>)>>
       ELSE IF c = <<"p", "w", "d">>
       THEN <<Dm(m.author, <<Backtick>> \o EscapeBackticks(st.cwd) \o <<Backtick>>)>>
       ELSE IF c = <<"c", "d">>
       THEN IF StartsWith(CdTarget(m), <<".", ".">>)
            THEN <<Dm(m.author, <<"Permission denied: cannot cd above your storage root.">>)>>
            ELSE <<Dm(m.author, <<"cwd set to ", Backtick>> \o EscapeBackticks(CdTarget(m)) \o <<Backtick>>)>>
       ELSE IF c = <<"l", "s">>
       THEN <<ApiCall("listFiles", m.author,
                      IF StorageOperand(m) # <<>> THEN StorageOperand(m) ELSE st.cwd)>>
       ELSE IF c = <<"r", "m">>
       THEN IF StorageOperand(m) = <<>>
            THEN <<Dm(m.author, <<"Usage: $rm <filename>">>)>>
            ELSE <<ApiCall("removeFile", m.author, StorageOperand(m))>>
       ELSE <<Dm(m.author, <<"No attachments found on your message. Attach files and use $upload to save them.">>)>>

\* ------------------------------------------------------------------------
\* One messageCreate event: both listeners run on it, index.js first
\* ------------------------------------------------------------------------
MessageCreate(m) ==
  /\ Dispatch(m)
  /\ USER_STATE' = StorageStateAfter(m)
  /\ fx' = <<[kind |-> "message", m |-> m]>> \o DispatchFx(m) \o StorageFx(m)
  /\ UNCHANGED <<moduleVars, policyVars, clock, firewallVars, renderVars, nick, hackVars>>

\* Time passes between two events.
Tick(d) ==
  /\ clock + d <= MaxClock
  /\ clock' = clock + d
  /\ fx' = <<>>
  /\ UNCHANGED <<moduleVars, policyVars, lastUsed, sessionVars, USER_STATE, firewallVars, renderVars, nick,
                 hackVars>>


\* ------------------------------------------------------------------------
\* Firewall store (commands/firewall.js) and the /help, /firewall
\* interactionCreate handler of index.js
\* ------------------------------------------------------------------------
NoMember == "nomember"

\* ensure(guildId): the map after the call
ensure(m, guildId) == IF Has(m, guildId) THEN m ELSE MapSet(m, guildId, {})

\* protect that toggles membership instead of adding
protect_Toggle(m, guildId, userId) ==
  LET e == ensure(m, guildId) IN
  IF userId \in e[guildId] THEN MapSet(e, guildId, e[guildId] \ {userId})
  ELSE MapSet(e, guildId, e[guildId] \cup {userId})

protect(m, guildId, userId) ==
  IF guildId = NoGuild \/ userId = NoMember THEN m
  ELSE LET e == ensure(m, guildId) IN MapSet(e, guildId, e[guildId] \cup {userId})

unprotect(m, guildId, userId) ==
  IF guildId = NoGuild \/ userId = NoMember THEN m
  ELSE LET e == ensure(m, guildId) IN MapSet(e, guildId, e[guildId] \ {userId})

isProtected(m, guildId, userId) ==
  IF guildId = NoGuild \/ userId = NoMember THEN FALSE
  ELSE IF Has(m, guildId) THEN userId \in m[guildId] ELSE FALSE

\* A chat-input interaction for /help or /firewall: the invoking user, the
\* guild (NoGuild outside a server), the subcommand and the user named by a
\* "member" option (NoMember when the option is absent).
Interactions ==
  [commandName : {"help", "firewall"}, guildId : Guilds \cup {NoGuild}, user : Users,
   sub : {"on", "off", "status"}, member : Users \cup {NoMember}]

RequestedUser(i) == IF i.member # NoMember THEN i.member ELSE i.user

\* The firewall handler acting on the requested user's entry
FirewallAfter_Requested(i) ==
  IF i.commandName # "firewall" \/ i.guildId = NoGuild THEN firewallMap
  ELSE IF i.sub = "on" THEN protect(firewallMap, i.guildId, RequestedUser(i))
  ELSE IF i.sub = "off" THEN unprotect(firewallMap, i.guildId, RequestedUser(i))
  ELSE firewallMap

\* The firewall map after the handler has run on interaction i.
FirewallAfter(i) ==
  IF i.commandName # "firewall" \/ i.guildId = NoGuild THEN firewallMap
  ELSE IF RequestedUser(i) # i.user THEN firewallMap
  ELSE IF i.sub = "on" THEN protect(firewallMap, i.guildId, i.user)
  ELSE IF i.sub = "off" THEN unprotect(firewallMap, i.guildId, i.user)
  ELSE firewallMap

InteractionReply(i) ==
  IF i.commandName = "help" THEN Reply("help embed")
  ELSE IF i.guildId = NoGuild THEN Reply("This command only works in a server.")
  ELSE IF RequestedUser(i) # i.user
       THEN Reply("You may only change your own firewall protection (private).")
  ELSE IF i.sub = "on" THEN Reply("You are now protected by the firewall in this server. Hacking attempts blocked.")
  ELSE IF i.sub = "off" THEN Reply("You are no longer protected by the firewall in this server.")
  ELSE Reply("Unknown subcommand")

\* The interaction reaches firewall.protect / firewall.unprotect.
FirewallAccepted(i) ==
  i.commandName = "firewall" /\ i.guildId # NoGuild /\ RequestedUser(i) = i.user

InteractionCreate(i) ==
  /\ firewallMap' = FirewallAfter(i)
  /\ everProtected' =
       everProtected \cup {gu \in Guilds \X Users : isProtected(firewallMap', gu[1], gu[2])}
  /\ protectRun' =
       IF FirewallAccepted(i) /\ i.sub = "on"
       THEN (IF fx # <<>> /\ fx[1] = [kind |-> "interaction", i |-> i] THEN 2 ELSE 1)
       ELSE 0
  /\ fx' = <<[kind |-> "interaction", i |-> i], InteractionReply(i)>>
  /\ UNCHANGED <<moduleVars, policyVars, dispatchVars, renderVars, nick, hackVars>>

\* ------------------------------------------------------------------------
\* Terminal renderer: sendTerminalResponse (index.js)
\* ------------------------------------------------------------------------
JobIds == {"j1", "j2"}
SoloJobs == {"j1"}
NoMsg == <<"nojob", 0>>
NoResult == [typedFields |-> <<>>, renamed |-> FALSE, guildId |-> NoGuild,
             targetMemberId |-> NoMember, mutualServersCached |-> <<>>, activity |-> <<>>,
             present |-> FALSE]

\* Handler results, by shape
StringOut(t) == [type |-> "string", s |-> t]
ArrayOut(items) == [type |-> "array", items |-> items]
NullOut == [type |-> "null"]
NumberOut(t) == [type |-> "number", s |-> t]
EmbedOut == [type |-> "embed"]
HackOut(progress, result, error) ==
  [type |-> "hack", progress |-> progress, result |-> result, error |-> error]
\* An array element: a string, or something that is not a string
StrItem(t) == [isString |-> TRUE, s |-> t]
OtherItem == [isString |-> FALSE, s |-> <<>>]

\* What a message shows: plain text, or an embed with title, description, fields
PlainContent(t) == [plain |-> TRUE, title |-> <<>>, desc |-> t, fields |-> <<>>]
Embed(title, desc, fields) == [plain |-> FALSE, title |-> title, desc |-> desc, fields |-> fields]

Fence == <<Backtick, Backtick, Backtick>>
\* '```text\n' + promptLine + '\n\n' + '```'
PromptEmbed(promptLine) == Embed(<<>>, FenceOpen \o promptLine \o <<"\n", "\n">> \o Fence, <<>>)
\* '```text\n' + promptLine + '\n\n' + body + '\n```'
BodyEmbed(promptLine, body) ==
  Embed(<<>>, FenceOpen \o promptLine \o <<"\n", "\n">> \o body \o FenceClose, <<>>)

\* output.flatMap(l => typeof l === 'string' ? l.split('\n') : [''])
RECURSIVE FlatMapLines(_)
FlatMapLines(items) ==
  IF items = <<>> THEN <<>>
  ELSE (IF Head(items).isString THEN SplitOn(Head(items).s, "\n") ELSE <<<<>>>>)
         \o FlatMapLines(Tail(items))

\* Line normalisation that takes the elements of an array as they are
NormalizeLines_ArrayAsIs(output) ==
  IF output.type = "array"
  THEN [i \in 1..Len(output.items) |-> output.items[i].s]
  ELSE IF output.type = "string" THEN SplitOn(output.s, "\n")
  ELSE IF output.type = "null" THEN <<<<>>>>
  ELSE IF output.type = "number" THEN <<output.s>>
  ELSE <<<<"[object Object]">>>>

\* Line normalisation of a plain result
NormalizeLines(output) ==
  IF output.type = "array" THEN FlatMapLines(output.items)
  ELSE IF output.type = "string" THEN SplitOn(output.s, "\n")
  ELSE IF output.type = "null" THEN <<<<>>>>
  ELSE IF output.type = "number" THEN <<output.s>>
  ELSE <<<<"[object Object]">>>>

\* JSON.stringify of a string
Quoted(t) == <<"\"">> \o t \o <<"\"">>
RECURSIVE JsonItems(_)
JsonItems(items) ==
  IF items = <<>> THEN <<>>
  ELSE (IF Head(items).isString THEN Quoted(Head(items).s) ELSE <<"null">>)
         \o (IF Len(items) > 1 THEN <<",">> ELSE <<>>) \o JsonItems(Tail(items))

\* typeof output === 'string' ? output : JSON.stringify(output)
FallbackText(output) ==
  IF output.type = "string" THEN output.s
  ELSE IF output.type = "array" THEN <<"[">> \o JsonItems(output.items) \o <<"]">>
  ELSE IF output.type = "null" THEN <<"null">>
  ELSE IF output.type = "number" THEN output.s
  ELSE <<"{...}">>

IdleJob ==
  [pc |-> "idle", mode |-> "none", channel |-> DmChannel, promptLine |-> <<>>,
   output |-> NullOut, animate |-> TRUE, delay |-> 0,
   lines |-> <<>>, chunk |-> <<>>, embed |-> PlainContent(<<>>), msg |-> NoMsg,
   p |-> 0, final |-> NoResult, resultEmbed |-> PlainContent(<<>>), outMsg |-> NoMsg,
   fi |-> 0, c |-> 0, current |-> <<>>,
   sends |-> 0, edits |-> 0, fallbacks |-> 0, pending |-> <<>>, outcome |-> "none"]

\* Effects of a render step
SendFx(j, r, id, content) ==
  [kind |-> "send", job |-> j, to |-> r.channel, msg |-> id, content |-> content]
EditFx(j, r, id, content) ==
  [kind |-> "edit", job |-> j, to |-> r.channel, msg |-> id, content |-> content, n |-> r.edits + 1]

\* The id the next message sent by job j gets
NextMsgId(j, r) == <<j, r.sends + 1>>

\* The catch block of sendTerminalResponse: one plain send of the result
Fallback(j, r) ==
  [r |-> [r EXCEPT !.pc = "awaitFallback", !.sends = r.sends + 1,
                   !.fallbacks = r.fallbacks + 1],
   fx |-> <<SendFx(j, r, NextMsgId(j, r), PlainContent(FallbackText(r.output)))>>]

Returned(r) == [r EXCEPT !.pc = "done", !.outcome = "returned"]

\* Head of the animation loop with chunk.join in place of the growing chunk
PlainLoop_LastLineOnly(j, r) ==
  IF Len(r.chunk) < Len(r.lines)
  THEN LET chunk == Append(r.chunk, r.lines[Len(r.chunk) + 1]) IN
       [r |-> [r EXCEPT !.chunk = chunk,
                        !.embed = BodyEmbed(r.promptLine, chunk[Len(chunk)]),
                        !.pc = "sleep"],
        fx |-> <<>>]
  ELSE [r |-> Returned(r), fx |-> <<>>]

\* Head of the animation loop: push the next line and sleep, or return msg
PlainLoop(j, r) ==
  IF Len(r.chunk) < Len(r.lines)
  THEN LET chunk == Append(r.chunk, r.lines[Len(r.chunk) + 1]) IN
       [r |-> [r EXCEPT !.chunk = chunk,
                        !.embed = BodyEmbed(r.promptLine, Join(chunk, <<"\n">>)),
                        !.pc = "sleep"],
        fx |-> <<>>]
  ELSE [r |-> Returned(r), fx |-> <<>>]

\* The normal (non-hack) section up to its first await: normalise, send
PlainBegin(j, r) ==
  [r |-> [r EXCEPT !.mode = "plain", !.lines = NormalizeLines(r.output), !.chunk = <<>>,
                   !.embed = PromptEmbed(r.promptLine),
                   !.pc = "awaitSend", !.sends = r.sends + 1],
   fx |-> <<SendFx(j, r, NextMsgId(j, r), PromptEmbed(r.promptLine))>>]

\* The normal section keeping its message in a variable shared by all renders
PlainSent_SharedMsg(j, r0) ==
  LET r == [r0 EXCEPT !.msg = <<"j1", r0.sends>>] IN
  IF ~r.animate
  THEN LET full == BodyEmbed(r.promptLine, Join(r.lines, <<"\n">>)) IN
       [r |-> [r EXCEPT !.embed = full, !.pc = "awaitFullEdit", !.edits = r.edits + 1],
        fx |-> <<EditFx(j, r, r.msg, full)>>]
  ELSE PlainLoop(j, r)

\* const msg = await channel.send(...) has resolved in the normal section
PlainSent(j, r0) ==
  LET r == [r0 EXCEPT !.msg = <<j, r0.sends>>] IN
  IF ~r.animate
  THEN LET full == BodyEmbed(r.promptLine, Join(r.lines, <<"\n">>)) IN
       [r |-> [r EXCEPT !.embed = full, !.pc = "awaitFullEdit", !.edits = r.edits + 1],
        fx |-> <<EditFx(j, r, r.msg, full)>>]
  ELSE PlainLoop(j, r)

\* ---- staged hack animation -------------------------------------------
TYPING_CURSOR == "CURSOR"
BlankValue == <<"LRM">>
MaxFieldLen == 1024

Take(t, n) == SubSeq(t, 1, IF Len(t) < n THEN Len(t) ELSE n)

Field(name, value, inline) == [name |-> name, value |-> value, inline |-> inline]

RenameTyping(final) ==
  Field("Rename", IF final.renamed THEN <<"Applying...">> ELSE <<"Rename not applied">>, FALSE)
RenameFinal(final) ==
  Field("Rename", IF final.renamed THEN <<"Member renamed to 'Hacked' (applied)">>
                  ELSE <<"Rename not applied">>, FALSE)

\* The field block with the later fields shown in full instead of blank
FieldBlock_LaterShown(final, fi, shown) ==
  [x \in 1..Len(final.typedFields) |->
     LET f == final.typedFields[x] IN
     IF x = fi THEN Field(f.name, shown, f.inline)
     ELSE Field(f.name, Take(f.value, MaxFieldLen), f.inline)] \o <<RenameTyping(final)>>

\* The field block while field fi shows `shown`: earlier fields complete,
\* later fields blank, then the Rename status
FieldBlock(final, fi, shown) ==
  [x \in 1..Len(final.typedFields) |->
     LET f == final.typedFields[x] IN
     IF x < fi THEN Field(f.name, Take(f.value, MaxFieldLen), f.inline)
     ELSE IF x = fi THEN Field(f.name, shown, f.inline)
     ELSE Field(f.name, BlankValue, f.inline)] \o <<RenameTyping(final)>>

\* The last edit: Rename status replaced, optional summary fields appended
RECURSIVE ReplaceRename(_, _)
ReplaceRename(fields, final) ==
  IF fields = <<>> THEN <<>>
  ELSE IF Head(fields).name = "Rename" THEN <<RenameFinal(final)>> \o Tail(fields)
       ELSE <<Head(fields)>> \o ReplaceRename(Tail(fields), final)

FinalFields(r) ==
  LET cur == r.resultEmbed.fields
      hasRename == \E x \in 1..Len(cur) : cur[x].name = "Rename"
      base == IF hasRename THEN ReplaceRename(cur, r.final) ELSE Append(cur, RenameFinal(r.final))
  IN base
       \o (IF r.final.mutualServersCached # <<>>
           THEN <<Field("Mutual servers (cached)", r.final.mutualServersCached, TRUE)>> ELSE <<>>)
       \o (IF r.final.activity # <<>>
           THEN <<Field("Activity (raw)", r.final.activity, TRUE)>> ELSE <<>>)

ResultEmbed(fields) == Embed(<<"Hack result">>, <<>>, fields)

HackLastEdit(j, r) ==
  LET e == ResultEmbed(FinalFields(r)) IN
  [r |-> [r EXCEPT !.resultEmbed = e, !.pc = "awaitLastEdit", !.edits = r.edits + 1],
   fx |-> <<EditFx(j, r, r.outMsg, e)>>]

\* Body of the character loop for field r.fi at character r.c, or the edit
\* that finalises the field once all its characters are shown
HackCharLoop(j, r) ==
  LET f == r.final.typedFields[r.fi]
      chars == Take(f.value, MaxFieldLen)
  IN IF r.c < Len(chars)
     THEN LET current == Append(r.current, chars[r.c + 1])
              cursor == IF r.c % 2 = 0 THEN <<TYPING_CURSOR>> ELSE <<>>
              e == ResultEmbed(FieldBlock(r.final, r.fi, current \o cursor))
          IN [r |-> [r EXCEPT !.current = current, !.resultEmbed = e,
                              !.pc = "awaitCharEdit", !.edits = r.edits + 1],
              fx |-> <<EditFx(j, r, r.outMsg, e)>>]
     ELSE LET e == ResultEmbed(FieldBlock(r.final, r.fi, Take(f.value, MaxFieldLen))) IN
          [r |-> [r EXCEPT !.resultEmbed = e, !.pc = "awaitFinalizeEdit",
                           !.edits = r.edits + 1],
           fx |-> <<EditFx(j, r, r.outMsg, e)>>]

\* Head of the field loop
HackFieldLoop(j, r) ==
  IF r.fi <= Len(r.final.typedFields)
  THEN HackCharLoop(j, [r EXCEPT !.current = <<>>, !.c = 0])
  ELSE HackLastEdit(j, r)

\* After the rename attempt: build the result embed and send it
HackBuildResult(j, r) ==
  IF r.final.typedFields = <<>>
  THEN LET e == ResultEmbed(<<RenameFinal(r.final)>>) IN
       [r |-> [r EXCEPT !.resultEmbed = e, !.pc = "awaitReturnedSend", !.sends = r.sends + 1],
        fx |-> <<SendFx(j, r, NextMsgId(j, r), e)>>]
  ELSE LET e == ResultEmbed(FieldBlock(r.final, 0, <<>>)) IN
       [r |-> [r EXCEPT !.resultEmbed = e, !.pc = "awaitOutSend", !.sends = r.sends + 1],
        fx |-> <<SendFx(j, r, NextMsgId(j, r), e)>>]

FailEmbed(error) == Embed(<<"Hack failed">>, error, <<>>)

\* After the progress loop with the rename attempt left out
HackAfterProgress_NoRename(j, r) ==
  IF r.output.error # <<>>
  THEN [r |-> [r EXCEPT !.pc = "awaitReturnedSend", !.sends = r.sends + 1],
        fx |-> <<SendFx(j, r, NextMsgId(j, r), FailEmbed(r.output.error))>>]
  ELSE IF r.final.present THEN HackBuildResult(j, r)
  ELSE PlainBegin(j, r)

\* After the progress loop with the result looked at before the error
HackAfterProgress_ResultFirst(j, r) ==
  IF r.final.present
  THEN IF r.final.guildId # NoGuild /\ r.final.targetMemberId # NoMember
       THEN [r |-> [r EXCEPT !.pc = "awaitMemberFetch"],
             fx |-> <<[kind |-> "fetchMember", job |-> j, guild |-> r.final.guildId,
                       member |-> r.final.targetMemberId]>>]
       ELSE HackBuildResult(j, r)
  ELSE IF r.output.error # <<>>
  THEN [r |-> [r EXCEPT !.pc = "awaitReturnedSend", !.sends = r.sends + 1],
        fx |-> <<SendFx(j, r, NextMsgId(j, r), FailEmbed(r.output.error))>>]
  ELSE PlainBegin(j, r)

\* After the progress loop: failure message, rename and result, or fall
\* through to the normal section
HackAfterProgress(j, r) ==
  IF r.output.error # <<>>
  THEN [r |-> [r EXCEPT !.pc = "awaitReturnedSend", !.sends = r.sends + 1],
        fx |-> <<SendFx(j, r, NextMsgId(j, r), FailEmbed(r.output.error))>>]
  ELSE IF r.final.present
  THEN IF r.final.guildId # NoGuild /\ r.final.targetMemberId # NoMember
       THEN [r |-> [r EXCEPT !.pc = "awaitMemberFetch"],
             fx |-> <<[kind |-> "fetchMember", job |-> j, guild |-> r.final.guildId,
                       member |-> r.final.targetMemberId]>>]
       ELSE HackBuildResult(j, r)
  ELSE PlainBegin(j, r)

\* Head of the progress loop: show the next phrase, or leave the loop
HackProgressLoop(j, r) ==
  IF r.p < Len(r.output.progress)
  THEN LET e == BodyEmbed(r.promptLine, r.output.progress[r.p + 1]) IN
       [r |-> [r EXCEPT !.embed = e, !.pc = "awaitProgressEdit", !.edits = r.edits + 1],
        fx |-> <<EditFx(j, r, r.msg, e)>>]
  ELSE HackAfterProgress(j, r)

HackBegin(j, r) ==
  [r |-> [r EXCEPT !.mode = "hack", !.final = r.output.result,
                   !.embed = PromptEmbed(r.promptLine), !.p = 0,
                   !.pc = "awaitSend", !.sends = r.sends + 1],
   fx |-> <<SendFx(j, r, NextMsgId(j, r), PromptEmbed(r.promptLine))>>]

EmbedBegin(j, r) ==
  LET header == Embed(<<>>, FenceOpen \o r.promptLine \o FenceClose, <<>>) IN
  [r |-> [r EXCEPT !.mode = "embed", !.embed = header, !.pc = "awaitHeaderSend",
                   !.sends = r.sends + 1],
   fx |-> <<SendFx(j, r, NextMsgId(j, r), header)>>]

\* sendTerminalResponse up to its first await
RenderBegin(j, r) ==
  IF r.output.type = "embed" THEN EmbedBegin(j, r)
  ELSE IF r.output.type = "hack" THEN HackBegin(j, r)
  ELSE PlainBegin(j, r)

\* A call of sendTerminalResponse(channel, promptLine, output, {animate, delay})
RenderCall(channel, promptLine, output, animate, delay) ==
  [IdleJob EXCEPT !.channel = channel, !.promptLine = promptLine, !.output = output,
                  !.animate = animate, !.delay = delay]

\* ---- the steps of a render job -----------------------------------------
AwaitPcs ==
  {"awaitSend", "awaitHeaderSend", "awaitFullEdit", "awaitEdit", "awaitProgressEdit",
   "awaitReturnedSend", "awaitFallback", "awaitMemberFetch", "awaitRename",
   "awaitOutSend", "awaitCharEdit", "awaitFinalizeEdit", "awaitLastEdit"}
SleepPcs == {"sleep", "progressSleep", "charSleep", "fieldSleep"}

\* Remember the send or edit a step has issued until it settles
WithPending(res) ==
  [r |-> [res.r EXCEPT !.pending =
            IF res.fx # <<>> /\ res.fx[1].kind \in {"send", "edit"} THEN <<res.fx[1]>> ELSE <<>>],
   fx |-> res.fx]

\* The continuations with a rejected edit of the animation loop not swallowed
SettleStep_AnimatedEditAborts(j, r, ok) ==
  CASE r.pc = "awaitSend" ->
         IF ~ok THEN Fallback(j, r)
         ELSE IF r.mode = "hack" THEN HackProgressLoop(j, [r EXCEPT !.msg = <<j, r.sends>>])
         ELSE PlainSent(j, r)
    [] r.pc = "awaitHeaderSend" ->
         IF ~ok THEN Fallback(j, r)
         ELSE [r |-> [r EXCEPT !.pc = "awaitReturnedSend", !.sends = r.sends + 1],
               fx |-> <<SendFx(j, r, NextMsgId(j, r), Embed(<<"output">>, <<>>, <<>>))>>]
    [] r.pc = "awaitFullEdit" ->
         IF ~ok THEN Fallback(j, r) ELSE [r |-> Returned(r), fx |-> <<>>]
    [] r.pc = "awaitEdit" -> IF ~ok THEN Fallback(j, r) ELSE PlainLoop(j, r)
    [] r.pc = "awaitProgressEdit" -> [r |-> [r EXCEPT !.pc = "progressSleep"], fx |-> <<>>]
    [] r.pc = "awaitReturnedSend" ->
         [r |-> [r EXCEPT !.pc = "done", !.outcome = IF ok THEN "returned" ELSE "rejected"],
          fx |-> <<>>]
    [] r.pc = "awaitFallback" ->
         [r |-> [r EXCEPT !.pc = "done", !.outcome = IF ok THEN "fallback" ELSE "rejected"],
          fx |-> <<>>]
    [] r.pc = "awaitMemberFetch" ->
         IF ok
         THEN [r |-> [r EXCEPT !.pc = "awaitRename"],
               fx |-> <<[kind |-> "setNicknameCall", job |-> j, guild |-> r.final.guildId,
                         member |-> r.final.targetMemberId, nick |-> <<"Hacked">>]>>]
         ELSE HackBuildResult(j, [r EXCEPT !.final.renamed = FALSE])
    [] r.pc = "awaitRename" -> HackBuildResult(j, [r EXCEPT !.final.renamed = ok])
    [] r.pc = "awaitOutSend" ->
         IF ~ok THEN Fallback(j, r)
         ELSE HackFieldLoop(j, [r EXCEPT !.outMsg = <<j, r.sends>>, !.fi = 1])
    [] r.pc = "awaitCharEdit" -> [r |-> [r EXCEPT !.pc = "charSleep"], fx |-> <<>>]
    [] r.pc = "awaitFinalizeEdit" -> [r |-> [r EXCEPT !.pc = "fieldSleep"], fx |-> <<>>]
    [] r.pc = "awaitLastEdit" -> [r |-> Returned(r), fx |-> <<>>]

\* The continuation of job j after the call it awaits has settled
\* (ok: the call resolved; for the member fetch: a member came back)
SettleStep(j, r, ok) ==
  CASE r.pc = "awaitSend" ->
         IF ~ok THEN Fallback(j, r)
         ELSE IF r.mode = "hack" THEN HackProgressLoop(j, [r EXCEPT !.msg = <<j, r.sends>>])
         ELSE PlainSent(j, r)
    [] r.pc = "awaitHeaderSend" ->
         IF ~ok THEN Fallback(j, r)
         ELSE [r |-> [r EXCEPT !.pc = "awaitReturnedSend", !.sends = r.sends + 1],
               fx |-> <<SendFx(j, r, NextMsgId(j, r), Embed(<<"output">>, <<>>, <<>>))>>]
    [] r.pc = "awaitFullEdit" ->
         IF ~ok THEN Fallback(j, r) ELSE [r |-> Returned(r), fx |-> <<>>]
    [] r.pc = "awaitEdit" -> PlainLoop(j, r)
    [] r.pc = "awaitProgressEdit" -> [r |-> [r EXCEPT !.pc = "progressSleep"], fx |-> <<>>]
    [] r.pc = "awaitReturnedSend" ->
         [r |-> [r EXCEPT !.pc = "done", !.outcome = IF ok THEN "returned" ELSE "rejected"],
          fx |-> <<>>]
    [] r.pc = "awaitFallback" ->
         [r |-> [r EXCEPT !.pc = "done", !.outcome = IF ok THEN "fallback" ELSE "rejected"],
          fx |-> <<>>]
    [] r.pc = "awaitMemberFetch" ->
         IF ok
         THEN [r |-> [r EXCEPT !.pc = "awaitRename"],
               fx |-> <<[kind |-> "setNicknameCall", job |-> j, guild |-> r.final.guildId,
                         member |-> r.final.targetMemberId, nick |-> <<"Hacked">>]>>]
         ELSE HackBuildResult(j, [r EXCEPT !.final.renamed = FALSE])
    [] r.pc = "awaitRename" -> HackBuildResult(j, [r EXCEPT !.final.renamed = ok])
    [] r.pc = "awaitOutSend" ->
         IF ~ok THEN Fallback(j, r)
         ELSE HackFieldLoop(j, [r EXCEPT !.outMsg = <<j, r.sends>>, !.fi = 1])
    [] r.pc = "awaitCharEdit" -> [r |-> [r EXCEPT !.pc = "charSleep"], fx |-> <<>>]
    [] r.pc = "awaitFinalizeEdit" -> [r |-> [r EXCEPT !.pc = "fieldSleep"], fx |-> <<>>]
    [] r.pc = "awaitLastEdit" -> [r |-> Returned(r), fx |-> <<>>]

\* The continuations after a sleep with the animation loop stalling: no
\* edit follows the pause
WakeStep_Stalls(j, r) ==
  CASE r.pc = "sleep" -> [r |-> r, fx |-> <<>>]
    [] r.pc = "progressSleep" -> HackProgressLoop(j, [r EXCEPT !.p = r.p + 1])
    [] r.pc = "charSleep" -> HackCharLoop(j, [r EXCEPT !.c = r.c + 1])
    [] r.pc = "fieldSleep" -> HackFieldLoop(j, [r EXCEPT !.fi = r.fi + 1])

\* The continuation of job j after its sleep has elapsed
WakeStep(j, r) ==
  CASE r.pc = "sleep" ->
         [r |-> [r EXCEPT !.pc = "awaitEdit", !.edits = r.edits + 1],
          fx |-> <<EditFx(j, r, r.msg, r.embed)>>]
    [] r.pc = "progressSleep" -> HackProgressLoop(j, [r EXCEPT !.p = r.p + 1])
    [] r.pc = "charSleep" -> HackCharLoop(j, [r EXCEPT !.c = r.c + 1])
    [] r.pc = "fieldSleep" -> HackFieldLoop(j, [r EXCEPT !.fi = r.fi + 1])

\* What Discord shows once the pending send or edit of r has settled
MessagesAfter(r, ok) ==
  IF ok /\ r.pending # <<>>
  THEN MapSet(messages, r.pending[1].msg, r.pending[1].content)
  ELSE messages

\* The nickname Discord shows once the pending setNickname of r has settled
NickAfter(r, ok) ==
  IF ok /\ r.pc = "awaitRename" THEN [nick EXCEPT ![r.final.targetMemberId] = <<"Hacked">>]
  ELSE nick

NickFx(r, ok) ==
  IF ok /\ r.pc = "awaitRename"
  THEN <<[kind |-> "setNickname", guild |-> r.final.guildId, member |-> r.final.targetMemberId,
          nick |-> <<"Hacked">>, by |-> "renderer"]>>
  ELSE <<>>

RenderSettle(j, ok) ==
  /\ rj[j].pc \in AwaitPcs
  /\ LET res == WithPending(SettleStep(j, rj[j], ok)) IN
     /\ rj' = [rj EXCEPT ![j] = res.r]
     /\ fx' = <<[kind |-> "settle", job |-> j, pc |-> rj[j].pc, ok |-> ok]>>
                \o NickFx(rj[j], ok) \o res.fx
  /\ messages' = MessagesAfter(rj[j], ok)
  /\ nick' = NickAfter(rj[j], ok)
  /\ UNCHANGED <<moduleVars, policyVars, dispatchVars, firewallVars, hackVars>>

RenderWake(j) ==
  /\ rj[j].pc \in SleepPcs
  /\ LET res == WithPending(WakeStep(j, rj[j])) IN
     /\ rj' = [rj EXCEPT ![j] = res.r]
     /\ fx' = <<[kind |-> "wake", job |-> j, pc |-> rj[j].pc, ok |-> TRUE]>> \o res.fx
  /\ UNCHANGED <<moduleVars, policyVars, dispatchVars, firewallVars, hackVars, messages, nick>>

\* The dispatcher calls sendTerminalResponse on a handler result
RenderStart(j, call) ==
  /\ rj[j].pc = "idle"
  /\ LET res == WithPending(RenderBegin(j, call)) IN
     /\ rj' = [rj EXCEPT ![j] = res.r]
     /\ fx' = <<[kind |-> "render", job |-> j, pc |-> "idle", ok |-> TRUE]>> \o res.fx
  /\ UNCHANGED <<moduleVars, policyVars, dispatchVars, firewallVars, hackVars, messages, nick>>

\* ---- the renderer on its own: results of every shape ---------------------
MaxStrLen == 3
MaxItems == 2
RenderChars == {"a", "\n"}
Strs(n) == UNION {[1..k -> RenderChars] : k \in 0..n}
Items == {StrItem(t) : t \in Strs(1)} \cup {OtherItem}
PlainOutputs ==
  {StringOut(t) : t \in Strs(MaxStrLen)}
    \cup {ArrayOut(a) : a \in UNION {[1..k -> Items] : k \in 0..MaxItems}}
    \cup {NullOut, NumberOut(<<"7">>)}

SampleFields == <<Field("Name", <<"b", "o">>, TRUE), Field("ID", <<"7">>, FALSE)>>
SampleResult(fields, guildId, member) ==
  [typedFields |-> fields, renamed |-> TRUE, guildId |-> guildId, targetMemberId |-> member,
   mutualServersCached |-> <<"1">>, activity |-> <<>>, present |-> TRUE]
HackOutputs ==
  { HackOut(<<<<"p1">>, <<"p2">>>>, NoResult, <<"blocked">>),
    HackOut(<<<<"p1">>>>, SampleResult(SampleFields, "g1", "u2"), <<"blocked">>),
    HackOut(<<<<"p1">>>>, SampleResult(SampleFields, "g1", "u2"), <<>>),
    HackOut(<<>>, SampleResult(<<>>, NoGuild, NoMember), <<>>),
    HackOut(<<<<"p1">>>>, NoResult, <<>>) }

RenderCalls ==
  { RenderCall("c1", <<"u1@terminal:~/workspace$ ", "$", "x">>, o, a, DEFAULT_DELAY_MS) :
      o \in PlainOutputs \cup HackOutputs \cup {EmbedOut}, a \in BOOLEAN }

NextRender ==
  \/ \E j \in SoloJobs, call \in RenderCalls : RenderStart(j, call)
  \/ \E j \in SoloJobs, ok \in BOOLEAN : RenderSettle(j, ok)
  \/ \E j \in SoloJobs : RenderWake(j)

\* ---- the field typing on its own: short values with edits that may
\* fail, and a value one character over the limit with edits that succeed
LongValue == [i \in 1..(MaxFieldLen + 1) |-> "x"]
LongFields == <<Field("Bio", LongValue, FALSE), Field("ID", <<"7">>, TRUE)>>
TypingOutputs ==
  { HackOut(<<>>, SampleResult(SampleFields, NoGuild, NoMember), <<>>),
    HackOut(<<>>, SampleResult(LongFields, NoGuild, NoMember), <<>>) }
TypingCalls ==
  { RenderCall("c1", <<"u1@terminal:~/workspace$ ", "$", "x">>, o, TRUE, HACK_DELAY_MS) :
      o \in TypingOutputs }
IsLong(r) == \E x \in 1..Len(r.final.typedFields) : Len(r.final.typedFields[x].value) > MaxFieldLen

NextTyping ==
  \/ \E j \in SoloJobs, call \in TypingCalls : RenderStart(j, call)
  \/ \E j \in SoloJobs, ok \in BOOLEAN : (ok \/ ~IsLong(rj[j])) /\ RenderSettle(j, ok)
  \/ \E j \in SoloJobs : RenderWake(j)

\* ------------------------------------------------------------------------
\* sudo hack: the sudo command (index.js) and hackHandler
\* (commands/sudo/hack.js), one step per stretch of code between awaits
\* ------------------------------------------------------------------------
HackJob == "j1"
MaxStages == 1
MaxFields == 2

NonEmpty(t) == t # <<>>
\* s.split(' ').filter(Boolean)
Tokens(s) == SelectSeq(SplitOn(s, " "), NonEmpty)

\* The sudo command: parts, main and arg of `rest`
SudoParts(m) == Tokens(Rest(m))
SudoMain(m) == IF SudoParts(m) = <<>> THEN <<>> ELSE ToLowerCase(SudoParts(m)[1])
SudoArg(m) == IF SudoParts(m) = <<>> THEN <<>> ELSE Trim(Join(Tail(SudoParts(m)), <<" ">>))

KnownTypes ==
  { <<"i", "p">>, <<"b", "a", "n", "k">>, <<"a", "c", "c", "o", "u", "n", "t">>,
    <<"e", "m", "a", "i", "l">>, <<"f", "u", "l", "l">>, <<"p", "r", "o", "f", "i", "l", "e">>,
    <<"p", "a", "s", "s", "w", "o", "r", "d">> }

HasType(arg) ==
  Tokens(arg) # <<>> /\ ToLowerCase(Tokens(arg)[Len(Tokens(arg))]) \in KnownTypes
HackType(arg) ==
  IF HasType(arg) THEN ToLowerCase(Tokens(arg)[Len(Tokens(arg))])
  ELSE <<"p", "r", "o", "f", "i", "l", "e">>
TargetStr(arg) ==
  LET t == Tokens(arg) IN
  Trim(Join(IF HasType(arg) THEN SubSeq(t, 1, Len(t) - 1) ELSE t, <<" ">>))

UsageText == <<"Usage: sudo hack <username|nickname|mention|id> [type]">>
ServerOnlyText == <<"This command only works in a server">>
SelfTargetText == <<"You cannot hack yourself. Nice try.">>
UnknownTargetText(targetStr) == <<"Cannot hack unknown target: ">> \o targetStr

ProtectedProgress ==
  << <<"Targeting user .">>, <<"Targeting user ..">>, <<"Targeting user ...">>,
     <<"Checking firewall .">>, <<"Checking firewall ..">>, <<"Checking firewall ...">> >>
PrivilegeProgress ==
  << <<"Targeting user .">>, <<"Targeting user ..">>, <<"Targeting user ...">>,
     <<"Examining privileges .">>, <<"Examining privileges ..">>, <<"Examining privileges ...">> >>
ProtectedError(target) ==
  <<"Firewall active: ", target, " is protected in this server. Hacking blocked.">>
PrivilegeError(target) ==
  <<"Permission error: ", target, " is higher or equal in role hierarchy. Action denied.">>

\* The stage names of the animation, cut to the first MaxStages of them
AllStages ==
  <<"Targeting user", "Bypassing firewall", "Fingerprinting host", "Extracting credentials",
    "Finalizing exploit", "Hacking", "Loading details">>
stages == SubSeq(AllStages, 1, IF MaxStages < Len(AllStages) THEN MaxStages ELSE Len(AllStages))
Dots(d) == [x \in 1..d |-> "."]
\* for (const s of stages) for (d = 1..3) progress.push(`${s} ${'.'.repeat(d)}`)
progress ==
  [x \in 1..(3 * Len(stages)) |-> <<stages[((x - 1) \div 3) + 1], " ">> \o Dots(((x - 1) % 3) + 1)]

\* The nickname of iteration i (0-based) of the background loop, 'Hacked'
\* once the loop is over
LoopNick(baseName, i) ==
  IF i < Len(progress) THEN <<"Hacking ", baseName, " ">> \o Dots((i % 3) + 1)
  ELSE <<"Hacked">>

baseFields(target) ==
  << Field("Name", <<target>>, TRUE), Field("Tag", <<target, "#", "0">>, TRUE),
     Field("ID", <<target>>, TRUE), Field("Account created", <<"unknown">>, FALSE),
     Field("Server joined", <<"unknown">>, FALSE), Field("About", <<"Not available">>, FALSE),
     Field("Status", <<"offline">>, TRUE), Field("Activity", <<"None">>, TRUE) >>

extraFields(type) ==
  IF type = <<"i", "p">>
  THEN << Field("Last known IP", <<"sim">>, TRUE), Field("ISP", <<"sim">>, TRUE),
          Field("Last login (simulated)", <<"sim">>, FALSE) >>
  ELSE IF type = <<"b", "a", "n", "k">>
  THEN << Field("Bank", <<"sim">>, TRUE), Field("Balance (simulated)", <<"sim">>, TRUE),
          Field("Account (masked)", <<"sim">>, FALSE),
          Field("Last transaction (sim)", <<"sim">>, FALSE) >>
  ELSE IF type = <<"a", "c", "c", "o", "u", "n", "t">>
  THEN << Field("Primary email", <<"sim">>, TRUE), Field("Linked services", <<"sim">>, TRUE),
          Field("Account tier", <<"sim">>, FALSE) >>
  ELSE IF type = <<"e", "m", "a", "i", "l">>
  THEN << Field("Email (simulated)", <<"sim">>, FALSE), Field("Email verified", <<"sim">>, TRUE),
          Field("Inbox messages (sim)", <<"sim">>, TRUE) >>
  ELSE IF type = <<"p", "a", "s", "s", "w", "o", "r", "d">>
  THEN << Field("Likely password (simulated)", <<"sim">>, FALSE),
          Field("Password strength", <<"sim">>, TRUE) >>
  ELSE << Field("Last known IP", <<"sim">>, TRUE), Field("Bank balance (sim)", <<"sim">>, TRUE),
          Field("Primary email", <<"sim">>, FALSE) >>

\* baseFields.concat(extraFields), cut to the first MaxFields of them
typedFields(target, type) ==
  LET all == baseFields(target) \o extraFields(type) IN
  SubSeq(all, 1, IF MaxFields < Len(all) THEN MaxFields ELSE Len(all))

\* The object hackHandler returns on success
HackResult(h) ==
  HackOut(progress,
          [typedFields |-> typedFields(h.target, h.type),
           renamed |-> h.canManage, guildId |-> h.m.guildId, targetMemberId |-> h.target,
           mutualServersCached |-> <<"1">>, activity |-> <<>>, present |-> TRUE],
          <<>>)

IdleHack ==
  [pc |-> "idle",
   m |-> [author |-> BotUser, guildId |-> NoGuild, channelId |-> DmChannel, content |-> <<>>],
   promptLine |-> <<>>, type |-> <<>>, targetStr |-> <<>>, target |-> NoMember,
   canManage |-> FALSE, dm |-> FALSE, protAtCheck |-> FALSE]

IdleBg == [pc |-> "idle", guild |-> NoGuild, member |-> NoMember, baseName |-> "", i |-> 0]


HackMessages(cs) ==
  { m \in Messages(DispatchGuilds, DispatchChannels, cs) : m.author # BotUser }

\* hackHandler has returned `out`: the dispatcher hands it to
\* sendTerminalResponse in the same turn of the event loop
HackReturn(h, out) ==
  WithPending(RenderBegin(HackJob,
    RenderCall(h.m.channelId, h.promptLine, out, Animate(h.m), Delay(h.m))))

HackEvent(name) == [kind |-> "hack", step |-> name]
Returns(out) == [kind |-> "return", output |-> out]

\* sudo with main === 'hack': hackHandler(message, arg) up to resolveMember
HackStart(m) ==
  /\ hk.pc = "idle" /\ rj[HackJob].pc = "idle"
  /\ Cmd(m) = <<"s", "u", "d", "o">> /\ SudoMain(m) = <<"h", "a", "c", "k">>
  /\ LET arg == SudoArg(m)
         h == [hk EXCEPT !.m = m, !.promptLine = PromptLine(m), !.type = HackType(arg),
                         !.targetStr = TargetStr(arg)]
         early == IF arg = <<>> THEN UsageText
                  ELSE IF m.guildId = NoGuild THEN ServerOnlyText
                  ELSE IF TargetStr(arg) = <<>> THEN UsageText
                  ELSE <<>>
     IN IF early # <<>>
        THEN LET res == HackReturn(h, StringOut(early)) IN
             /\ hk' = [h EXCEPT !.pc = "returned"]
             /\ rj' = [rj EXCEPT ![HackJob] = res.r]
             /\ fx' = <<HackEvent("start"), Returns(StringOut(early))>> \o res.fx
        ELSE /\ hk' = [h EXCEPT !.pc = "resolving"]
             /\ fx' = <<HackEvent("start")>>
             /\ UNCHANGED rj
  /\ UNCHANGED <<moduleVars, policyVars, dispatchVars, firewallVars, messages, nick, bg>>

\* The self-target check that never fires
IsSelfTarget_Never(m, target) == FALSE
\* targetMember.id === message.author.id
IsSelfTarget(m, target) == target = m.author

\* The firewall check that never fires
ProtectedAtCheck_Never(m, target) == FALSE
\* prot = Boolean(isProtected(message.guild.id, targetMember.id))
ProtectedAtCheck(m, target) == isProtected(firewallMap, m.guildId, target)

\* What hackHandler returns right after resolution, or nothing to go on
ResolvedReturn(h, target) ==
  IF target = NoMember THEN <<StringOut(UnknownTargetText(h.targetStr))>>
  ELSE IF IsSelfTarget(h.m, target) THEN <<StringOut(SelfTargetText)>>
  ELSE IF ProtectedAtCheck(h.m, target)
       THEN <<HackOut(ProtectedProgress, NoResult, ProtectedError(target))>>
  ELSE <<>>

\* resolveMember has settled with `target` (NoMember for null): self-target
\* and firewall checks, then the fetch of the requester
HackResolved(target) ==
  /\ hk.pc = "resolving"
  /\ LET h == [hk EXCEPT !.target = target,
                         !.protAtCheck = /\ target \notin {NoMember, hk.m.author}
                                         /\ isProtected(firewallMap, hk.m.guildId, target)]
         ret == ResolvedReturn(h, target)
     IN IF ret # <<>>
        THEN LET res == HackReturn(h, ret[1]) IN
             /\ hk' = [h EXCEPT !.pc = "returned"]
             /\ rj' = [rj EXCEPT ![HackJob] = res.r]
             /\ fx' = <<HackEvent("resolved"), Returns(ret[1])>> \o res.fx
        ELSE /\ hk' = [h EXCEPT !.pc = "fetchRequester"]
             /\ fx' = <<HackEvent("resolved")>>
             /\ UNCHANGED rj
  /\ UNCHANGED <<moduleVars, policyVars, dispatchVars, firewallVars, messages, nick, bg>>

SetNicknameCall(guild, member, nickname) ==
  [kind |-> "setNicknameCall", job |-> "background", guild |-> guild, member |-> member,
   nick |-> nickname]

\* The requester fetch has settled: role hierarchy check, then the
\* background nickname loop and the DM are kicked off and the user is fetched
HackRoleChecked(higher, manageable) ==
  /\ hk.pc = "fetchRequester"
  /\ IF higher
     THEN LET out == HackOut(PrivilegeProgress, NoResult, PrivilegeError(hk.target))
              res == HackReturn(hk, out)
          IN /\ hk' = [hk EXCEPT !.pc = "returned"]
             /\ rj' = [rj EXCEPT ![HackJob] = res.r]
             /\ fx' = <<HackEvent("roleChecked"), Returns(out)>> \o res.fx
             /\ UNCHANGED bg
     ELSE /\ hk' = [hk EXCEPT !.pc = "fetchUser", !.canManage = manageable, !.dm = TRUE]
          /\ bg' = IF manageable
                   THEN [pc |-> "awaitNick", guild |-> hk.m.guildId, member |-> hk.target,
                         baseName |-> hk.target, i |-> 0]
                   ELSE bg
          /\ fx' = <<HackEvent("roleChecked")>>
                     \o (IF manageable
                         THEN <<SetNicknameCall(hk.m.guildId, hk.target, LoopNick(hk.target, 0))>>
                         ELSE <<>>)
                     \o <<Dm(hk.target, <<"Notice: You have been targeted by a playful 'hack' simulation">>)>>
          /\ UNCHANGED rj
  /\ UNCHANGED <<moduleVars, policyVars, dispatchVars, firewallVars, messages, nick>>

\* client.users.fetch has settled: the fields are built and returned
HackUserFetched ==
  /\ hk.pc = "fetchUser"
  /\ LET out == HackResult(hk)
         res == HackReturn(hk, out)
     IN /\ hk' = [hk EXCEPT !.pc = "returned"]
        /\ rj' = [rj EXCEPT ![HackJob] = res.r]
        /\ fx' = <<HackEvent("userFetched"), Returns(out)>> \o res.fx
  /\ UNCHANGED <<moduleVars, policyVars, dispatchVars, firewallVars, messages, nick, bg>>

\* A setNickname of the background loop has settled (ok: Discord applied it)
BgSettle(ok) ==
  /\ bg.pc = "awaitNick"
  /\ bg' = [bg EXCEPT !.pc = IF bg.i < Len(progress) THEN "sleep" ELSE "over"]
  /\ nick' = IF ok THEN [nick EXCEPT ![bg.member] = LoopNick(bg.baseName, bg.i)] ELSE nick
  /\ fx' = <<[kind |-> "settle", job |-> "background", pc |-> bg.pc, ok |-> ok]>>
             \o (IF ok
                 THEN <<[kind |-> "setNickname", guild |-> bg.guild, member |-> bg.member,
                         nick |-> LoopNick(bg.baseName, bg.i), by |-> "background"]>>
                 ELSE <<>>)
  /\ UNCHANGED <<moduleVars, policyVars, dispatchVars, firewallVars, renderVars, hk>>

\* sleep(HACK_DELAY_MS) of the background loop is over: next setNickname
BgWake ==
  /\ bg.pc = "sleep"
  /\ bg' = [bg EXCEPT !.pc = "awaitNick", !.i = bg.i + 1]
  /\ fx' = <<[kind |-> "wake", job |-> "background", pc |-> bg.pc, ok |-> TRUE],
             SetNicknameCall(bg.guild, bg.member, LoopNick(bg.baseName, bg.i + 1))>>
  /\ UNCHANGED <<moduleVars, policyVars, dispatchVars, firewallVars, renderVars, nick, hk>>

HackContents ==
  { <<"$", "s", "u", "d", "o", " ", "h", "a", "c", "k">>,
    <<"$", "s", "u", "d", "o", " ", "h", "a", "c", "k", " ", "i", "p">>,
    <<"$", "s", "u", "d", "o", " ", "H", "a", "c", "k", " ", "x", " ", "i", "p">> }

HackInteractions ==
  { i \in Interactions : /\ i.commandName = "firewall" /\ i.guildId \in DispatchGuilds
                         /\ i.sub \in {"on", "off"} /\ i.member = NoMember }

\* One sudo hack invocation with its background loop and its render job,
\* interleaved with /firewall on|off of either user. Sends and edits of the
\* render job succeed here (their failures are explored in SpecRender); the
\* member fetch and every setNickname may fail.
NextHack ==
  \/ \E m \in HackMessages(HackContents) : HackStart(m)
  \/ \E t \in Users \cup {NoMember} : HackResolved(t)
  \/ \E higher \in BOOLEAN, manageable \in BOOLEAN : HackRoleChecked(higher, manageable)
  \/ HackUserFetched
  \/ \E ok \in BOOLEAN : BgSettle(ok)
  \/ BgWake
  \/ \E ok \in BOOLEAN : /\ ok \/ rj[HackJob].pc \in {"awaitMemberFetch", "awaitRename"}
                         /\ RenderSettle(HackJob, ok)
  \/ RenderWake(HackJob)
  \/ \E i \in HackInteractions : InteractionCreate(i)


\* ------------------------------------------------------------------------
\* The messageCreate handler followed through the handler call and the
\* render: lines 621-642 of index.js, one job slot per invocation
\* ------------------------------------------------------------------------
Threw == [type |-> "throw"]

\* The first job slot not yet used
FreeJob(j) == rj[j].pc = "idle" /\ (j \in SoloJobs \/ \A k \in SoloJobs : rj[k].pc # "idle")

\* `await entry.fn(...)` has settled; on a throw a fallback send is made
HandlerStep_FallbackOnThrow(j, r, res) ==
  IF res = Threw
  THEN Fallback(j, [r EXCEPT !.mode = "threw"])
  ELSE RenderBegin(j, [r EXCEPT !.output = res])

\* `await entry.fn(...)` has settled: a throw lands in the catch of the
\* messageCreate handler, which logs; a result goes to sendTerminalResponse
HandlerStep(j, r, res) ==
  IF res = Threw
  THEN [r |-> [r EXCEPT !.mode = "threw", !.pc = "done", !.outcome = "caught"],
        fx |-> <<[kind |-> "log", text |-> "Command handler error"]>>]
  ELSE RenderBegin(j, [r EXCEPT !.output = res])

\* messageCreate on message m, the invocation kept in job slot j
MessageCreateJob(j, m) ==
  /\ FreeJob(j)
  /\ Dispatch(m)
  /\ USER_STATE' = StorageStateAfter(m)
  /\ rj' = IF DispatchOutcome(m) = "invoke"
           THEN [rj EXCEPT ![j] =
                   [RenderCall(m.channelId, PromptLine(m), NullOut, Animate(m), Delay(m))
                      EXCEPT !.pc = "awaitHandler"]]
           ELSE rj
  /\ fx' = <<[kind |-> "message", m |-> m]>> \o DispatchFx(m) \o StorageFx(m)
  /\ UNCHANGED <<moduleVars, policyVars, clock, firewallVars, messages, nick, hackVars>>

HandlerSettled(j, res) ==
  /\ rj[j].pc = "awaitHandler"
  /\ LET step == WithPending(HandlerStep(j, rj[j], res)) IN
     /\ rj' = [rj EXCEPT ![j] = step.r]
     /\ fx' = <<[kind |-> "handler", job |-> j, pc |-> "awaitHandler", ok |-> res # Threw]>>
                \o step.fx
  /\ UNCHANGED <<moduleVars, policyVars, dispatchVars, firewallVars, hackVars, messages, nick>>

JobContents == { <<"$", "p", "i", "n", "g">>, <<"$", "h", "e", "l", "p">> }
JobMessages ==
  { m \in Messages(DispatchGuilds, DispatchChannels, JobContents) : m.guildId # NoGuild }
HandlerResults ==
  { Threw, StringOut(<<"a", "\n", "b">>), EmbedOut,
    HackOut(<<<<"p1">>, <<"p2">>>>, NoResult, <<"blocked">>) }

NextDispatch ==
  \/ \E j \in JobIds, m \in JobMessages : MessageCreateJob(j, m)
  \/ \E j \in JobIds, res \in HandlerResults : HandlerSettled(j, res)
  \/ \E j \in JobIds, ok \in BOOLEAN : RenderSettle(j, ok)
  \/ \E j \in JobIds : RenderWake(j)

\* ------------------------------------------------------------------------
\* Storage API (storage/api.js): per-user directories under baseDir, the
\* quota check and the two ways of saving a file. Every awaited filesystem
\* call is one step; the calls themselves succeed, except that stat reports
\* ENOENT for a file that has gone since the directory was read.
\* ------------------------------------------------------------------------
\* baseDir as index.js hands it in: an absolute path
baseDir == <<"/", "data">>
\* quotaBytes, scaled down from 800 MB
quotaBytes == 4
\* The largest file a save is given
MaxSize == 3
MaxNameLen == 200

SaveJobs == {"s1", "s2"}
SoloSave == {"s1"}

\* path.join(a, b)
PathJoin(a, b) == PathNormalize(a \o <<"/">> \o b)
userDir(userId) == PathJoin(baseDir, <<userId>>)

\* The directory path without a trailing separator, and the prefix that the
\* paths below the directory start with
StripSlash(dir) ==
  IF Len(dir) > 1 /\ dir[Len(dir)] = "/" THEN SubSeq(dir, 1, Len(dir) - 1) ELSE dir
DirPrefix(dir) == IF dir = <<"/">> THEN dir ELSE StripSlash(dir) \o <<"/">>
InDir(p, dir) == StartsWith(p, DirPrefix(dir)) /\ Len(p) > Len(DirPrefix(dir))

Unlinked(d, p) == [x \in (DOMAIN d) \ {p} |-> d[x]]

RECURSIVE SumSizes(_, _)
SumSizes(d, ps) ==
  IF ps = {} THEN 0
  ELSE LET p == CHOOSE x \in ps : TRUE IN d[p] + SumSizes(d, ps \ {p})

\* _dirSize: readdir gives the files below dir; the sizes are read
\* afterwards, and a file that is gone by then makes the whole sum 0
\* (the ENOENT branch of the catch)
DirEntries(d, dir) == {p \in DOMAIN d : InDir(p, dir)}
DirSizeOf(d, entries) ==
  IF \E p \in entries : ~Has(d, p) THEN 0 ELSE SumSizes(d, entries)

\* usedBytes(userId) when nothing runs in between
usedBytes(d, userId) == DirSizeOf(d, DirEntries(d, userDir(userId)))

UnsafeChars == {"/", "\\", "<", ">", ":", "\"", "|", "?", "*"}
safeFilename(name) ==
  Take([i \in 1..Len(name) |-> IF name[i] \in UnsafeChars THEN "_" ELSE name[i]], MaxNameLen)

IdleSave ==
  [pc |-> "idle", kind |-> "none", user |-> "none", dest |-> <<>>, tmp |-> <<>>,
   size |-> 0, entries |-> {}, currentUsed |-> 0, outcome |-> "none",
   usedAtCall |-> 0, before |-> EmptyMap]

SaveKinds == {"buffer", "stream"}
SaveUsers == {"u1"}
SaveNames == {<<"a">>, <<".", ".", "/", "a">>}
SaveSizes == 1..MaxSize

\* saveFileFromBuffer / saveFileFromStream up to `await ensureUserDir`
SaveCall(j, kind, userId, filename, size) ==
  /\ sv[j].pc = "idle"
  /\ LET safe == safeFilename(IF filename = <<>> THEN <<"file-", clock>> ELSE filename)
         dest == PathJoin(userDir(userId), safe)
     IN sv' = [sv EXCEPT ![j] =
                 [IdleSave EXCEPT !.pc = "mkdir", !.kind = kind, !.user = userId,
                                  !.dest = dest, !.tmp = dest \o <<".tmp-", j>>,
                                  !.size = size,
                                  !.usedAtCall = usedBytes(disk, userId),
                                  !.before = disk]]
  /\ fx' = <<[kind |-> "save", job |-> j, pc |-> "idle"]>>
  /\ UNCHANGED <<policyVars, dispatchVars, firewallVars, renderVars, nick, hackVars, disk, cli, rot>>

\* The stream check with the temporary file kept when the quota is exceeded
SaveChecked_KeepTmp(s) ==
  IF s.currentUsed + s.size > quotaBytes
  THEN [s EXCEPT !.pc = "done", !.outcome = "QuotaExceeded"]
  ELSE [s EXCEPT !.pc = IF s.kind = "buffer" THEN "writing" ELSE "renaming"]

\* The quota check, once currentUsed is known: the buffer save throws or
\* goes on to writeFile; the stream save unlinks its temporary file and
\* rejects, or goes on to rename it.
SaveChecked(s) ==
  IF s.currentUsed + s.size > quotaBytes
  THEN IF s.kind = "buffer"
       THEN [s EXCEPT !.pc = "done", !.outcome = "QuotaExceeded"]
       ELSE [s EXCEPT !.pc = "unlinking"]
  ELSE [s EXCEPT !.pc = IF s.kind = "buffer" THEN "writing" ELSE "renaming"]

\* The job record after the filesystem call it waits for has settled
SaveAfter(s) ==
  CASE s.pc = "mkdir" ->
         [s EXCEPT !.pc = IF s.kind = "buffer" THEN "readdir" ELSE "piping"]
    [] s.pc = "piping" -> [s EXCEPT !.pc = "readdir"]
    [] s.pc = "readdir" ->
         [s EXCEPT !.pc = "stat", !.entries = DirEntries(disk, userDir(s.user))]
    [] s.pc = "stat" -> SaveChecked([s EXCEPT !.currentUsed = DirSizeOf(disk, s.entries)])
    [] s.pc = "writing" -> [s EXCEPT !.pc = "done", !.outcome = "saved"]
    [] s.pc = "unlinking" -> [s EXCEPT !.pc = "done", !.outcome = "QuotaExceeded"]
    [] s.pc = "renaming" -> [s EXCEPT !.pc = "done", !.outcome = "saved"]

\* The filesystem after that call
DiskAfter(s) ==
  CASE s.pc = "piping" -> MapSet(disk, s.tmp, s.size)
    [] s.pc = "writing" -> MapSet(disk, s.dest, s.size)
    [] s.pc = "unlinking" -> Unlinked(disk, s.tmp)
    [] s.pc = "renaming" ->
         IF Has(disk, s.tmp) THEN MapSet(Unlinked(disk, s.tmp), s.dest, disk[s.tmp]) ELSE disk
    [] OTHER -> disk

SavePcs == {"mkdir", "piping", "readdir", "stat", "writing", "unlinking", "renaming"}

SaveStep(j) ==
  /\ sv[j].pc \in SavePcs
  /\ sv' = [sv EXCEPT ![j] = SaveAfter(sv[j])]
  /\ disk' = DiskAfter(sv[j])
  /\ fx' = <<[kind |-> "save", job |-> j, pc |-> sv[j].pc]>>
  /\ UNCHANGED <<policyVars, dispatchVars, firewallVars, renderVars, nick, hackVars, cli, rot>>

\* The caller has its result; the slot is free for the next call
SaveReturn(j) ==
  /\ sv[j].pc = "done"
  /\ sv' = [sv EXCEPT ![j] = IdleSave]
  /\ fx' = <<[kind |-> "save", job |-> j, pc |-> "done"]>>
  /\ UNCHANGED <<policyVars, dispatchVars, firewallVars, renderVars, nick, hackVars, disk, cli, rot>>

\* One call at a time
NextSave ==
  \/ \E j \in SoloSave, k \in SaveKinds, u \in SaveUsers, n \in SaveNames, s \in SaveSizes :
       SaveCall(j, k, u, n, s)
  \/ \E j \in SoloSave : SaveStep(j)
  \/ \E j \in SoloSave : SaveReturn(j)

\* Two calls of one user in flight together, each saving under its own name
ConcName(j) == IF j \in SoloSave THEN <<"a">> ELSE <<".", ".", "/", "a">>
ConcSizes == {MaxSize - 1, MaxSize}
NextSaveConc ==
  \/ \E j \in SaveJobs, k \in SaveKinds, u \in SaveUsers, s \in ConcSizes :
       SaveCall(j, k, u, ConcName(j), s)
  \/ \E j \in SaveJobs : SaveStep(j)
  \/ \E j \in SaveJobs : SaveReturn(j)

\* The name readdir(dir) reports for the file p below dir
ChildName(p, dir) == SplitOn(SubSeq(p, Len(DirPrefix(dir)) + 1, Len(p)), "/")[1]

\* listFiles(userId, relPath): the directory read and the names found there
\* (none when the directory does not exist)
listFiles(d, userId, relPath) ==
  LET dir == PathJoin(userDir(userId), relPath)
  IN [kind |-> "listed", user |-> userId, dir |-> dir,
      entries |-> {ChildName(p, dir) : p \in DirEntries(d, dir)}]

\* removeFile(userId, filename): the path it goes for and how it ends
removeFile(d, userId, filename) ==
  LET full == PathJoin(userDir(userId), filename)
  IN [kind |-> "unlink", user |-> userId, path |-> full,
      outcome |-> IF ~StartsWith(full, userDir(userId)) THEN "Invalid filename"
                  ELSE IF Has(d, full) THEN "removed"
                  ELSE IF DirEntries(d, full) # {} THEN "error"
                  ELSE "not found"]

\* What the storage API does on the call the command handler makes
ApiResult(call) ==
  IF call.kind # "api" THEN <<>>
  ELSE IF call.fn = "listFiles" THEN <<listFiles(disk, call.user, call.arg)>>
  ELSE IF call.fn = "removeFile" THEN <<removeFile(disk, call.user, call.arg)>>
  ELSE <<[kind |-> "quota", user |-> call.user, used |-> usedBytes(disk, call.user)]>>

DiskAfterApi(results) ==
  IF results # <<>> /\ results[1].kind = "unlink" /\ results[1].outcome = "removed"
  THEN Unlinked(disk, results[1].path)
  ELSE disk

\* One messageCreate event with a storage command, through to the answer of
\* the storage API
MessageCreateStorage(m) ==
  LET calls == StorageFx(m)
      results == IF calls = <<>> THEN <<>> ELSE ApiResult(calls[1])
  IN /\ Dispatch(m)
     /\ USER_STATE' = StorageStateAfter(m)
     /\ disk' = DiskAfterApi(results)
     /\ fx' = <<[kind |-> "message", m |-> m]>> \o DispatchFx(m) \o calls \o results
     /\ UNCHANGED <<policyVars, clock, firewallVars, renderVars, nick, hackVars, sv, cli, rot>>

\* The storage commands two users type: listing and removing in their own
\* directory, and with a path that leads into the other user's directory
StoreContents ==
  { <<"$", "l", "s">>,
    <<"$", "l", "s", " ", "x", " ", ".", ".", "/", "u2">>,
    <<"$", "l", "s", " ", "x", " ", ".", ".", "/", "u1">>,
    <<"$", "r", "m", " ", "x", " ", "f">>,
    <<"$", "r", "m", " ", "x", " ", ".", ".", "/", "u2", "/", "f">>,
    <<"$", "c", "d", " ", "x", " ", "d">> }
StoreMessages == {m \in Messages({}, {}, StoreContents) : ~IsBot(m)}

\* Each user has stored a file f, and u1 a file d/g
SeededDisk ==
  [p \in {userDir("u1") \o <<"/", "f">>, userDir("u1") \o <<"/", "d", "/", "g">>,
          userDir("u2") \o <<"/", "f">>} |-> 1]

NextStoreCmd == \E m \in StoreMessages : MessageCreateStorage(m)

\* ------------------------------------------------------------------------
\* The command-line utilities: deploy-commands.js and remove-commands.js
\* ------------------------------------------------------------------------
\* One run of one script. exitCode is read once pc = "exited"; a script
\* that returns from its main function without process.exit ends with the
\* code node gives a drained event loop, 0.
IdleCli ==
  [pc |-> "idle", script |-> "none", TOKEN |-> FALSE, CLIENT_ID |-> FALSE,
   GUILD_ID |-> FALSE, toRegister |-> <<>>, scope |-> "none",
   toggleCommands |-> <<>>, deleted |-> <<>>, apiFailed |-> FALSE,
   completed |-> FALSE, exitCode |-> 0]

Exit(c, code) == [c EXCEPT !.pc = "exited", !.exitCode = code]
NaturalExit(c) == Exit(c, 0)

\* What tryLoadBuilder finds for one command: nothing, a builder whose JSON
\* has a name, or one whose JSON has none
Loaded == {"none", "named", "unnamed"}
\* pushBuilder over help (or its fallback), toggle and firewall
PushBuilder(found, name) == IF found = "named" THEN <<name>> ELSE <<>>
ToRegister(help, toggle, firewall) ==
  PushBuilder(IF help = "none" THEN "named" ELSE help, "help")
    \o PushBuilder(toggle, "toggle") \o PushBuilder(firewall, "firewall")

\* deploy-commands.js up to its first await
DeployStart(c, help, toggle, firewall) ==
  IF ~c.TOKEN THEN Exit(c, 1)
  ELSE LET toRegister == ToRegister(help, toggle, firewall) IN
       IF toRegister = <<>> THEN Exit(c, 1)
       ELSE [c EXCEPT !.pc = "awaitAppInfo", !.toRegister = toRegister]

\* remove-commands.js up to its first await
RemoveStart(c) ==
  IF ~c.TOKEN \/ ~c.CLIENT_ID THEN Exit(c, 1)
  ELSE [c EXCEPT !.pc = "awaitGet"]

RemoteCommand(name, id) == [name |-> name, id |-> id]
\* The replies of the command list request
CommandLists ==
  { <<>>, <<RemoteCommand("help", 1)>>, <<RemoteCommand("toggle", 2)>>,
    <<RemoteCommand("help", 1), RemoteCommand("toggle", 2)>>,
    <<RemoteCommand("toggle", 2), RemoteCommand("help", 1), RemoteCommand("toggle", 3)>> }
\* The replies of the application info request: with an id or without
AppInfos == {[id |-> "app"], [id |-> ""]}

RECURSIVE FilterToggle(_)
FilterToggle(commands) ==
  IF commands = <<>> THEN <<>>
  ELSE (IF Head(commands).name = "toggle" THEN <<Head(commands)>> ELSE <<>>)
         \o FilterToggle(Tail(commands))

\* The delete loop of remove-commands.js from its next command on
RemoveLoop(c) ==
  IF c.toggleCommands = <<>> THEN NaturalExit([c EXCEPT !.completed = TRUE])
  ELSE [c EXCEPT !.pc = "awaitDelete"]

\* The catch of remove-commands.js: the error is logged and main returns
RemoveCatch(c) == NaturalExit([c EXCEPT !.apiFailed = TRUE])

\* The request the script waits for settles: ok with reply, or rejected
CliAfter(c, ok, reply) ==
  CASE c.pc = "awaitAppInfo" ->
         IF ~ok THEN Exit([c EXCEPT !.apiFailed = TRUE], 1)
         ELSE IF reply.id = "" THEN Exit(c, 1)
         ELSE [c EXCEPT !.pc = "awaitPut",
                        !.scope = IF c.GUILD_ID THEN "guild" ELSE "global"]
    [] c.pc = "awaitPut" ->
         IF ~ok THEN Exit([c EXCEPT !.apiFailed = TRUE], 1)
         ELSE Exit([c EXCEPT !.completed = TRUE], 0)
    [] c.pc = "awaitGet" ->
         IF ~ok THEN RemoveCatch(c)
         ELSE IF reply = <<>> THEN NaturalExit([c EXCEPT !.completed = TRUE])
         ELSE RemoveLoop([c EXCEPT !.toggleCommands = FilterToggle(reply)])
    [] c.pc = "awaitDelete" ->
         IF ~ok THEN RemoveCatch(c)
         ELSE RemoveLoop([c EXCEPT !.toggleCommands = Tail(c.toggleCommands),
                                   !.deleted = Append(c.deleted, Head(c.toggleCommands).id)])

RepliesAt(pc) ==
  CASE pc = "awaitAppInfo" -> AppInfos
    [] pc = "awaitGet" -> CommandLists
    [] OTHER -> {"ok"}

CliFrame ==
  UNCHANGED <<policyVars, dispatchVars, firewallVars, renderVars, nick, hackVars, storeVars, rot>>

CliStart(script, token, clientId, guildId, help, toggle, firewall) ==
  /\ cli.pc = "idle"
  /\ LET c == [cli EXCEPT !.script = script, !.TOKEN = token,
                          !.CLIENT_ID = clientId, !.GUILD_ID = guildId]
     IN cli' = IF script = "deploy" THEN DeployStart(c, help, toggle, firewall)
               ELSE RemoveStart(c)
  /\ fx' = <<[kind |-> "cli", script |-> script, pc |-> "start"]>>
  /\ CliFrame

CliSettle(ok, reply) ==
  /\ cli.pc \in {"awaitAppInfo", "awaitPut", "awaitGet", "awaitDelete"}
  /\ reply \in RepliesAt(cli.pc)
  /\ cli' = CliAfter(cli, ok, reply)
  /\ fx' = <<[kind |-> "cli", script |-> cli.script, pc |-> cli.pc]>>
  /\ CliFrame

NextCli ==
  \/ \E token, clientId, guildId \in BOOLEAN, help, toggle, firewall \in Loaded :
       CliStart("deploy", token, clientId, guildId, help, toggle, firewall)
  \/ \E token, clientId, guildId \in BOOLEAN :
       CliStart("remove", token, clientId, guildId, "none", "none", "none")
  \/ \E ok \in BOOLEAN, reply \in RepliesAt(cli.pc) : CliSettle(ok, reply)

\* ------------------------------------------------------------------------
\* The presence controller: status.js
\* ------------------------------------------------------------------------
MaxUpdates == 5

\* intervalId 0 is null. timers are the intervals set and not cleared, each
\* with the indexRef its callback closes over. listeners are the once
\* listeners of startOnce, pendingStart the nextTick callbacks queued.
\* stopped and updates record the calls of stop() and of setPresence.
InitialRot ==
  [pc |-> "idle", clientOk |-> TRUE, ready |-> FALSE, emitted |-> {},
   intervalId |-> 0, timers |-> <<>>, started |-> 0, listeners |-> {},
   pendingStart |-> 0, stopped |-> FALSE, updates |-> 0]

statuses == <<"version", "Use /help for commands", "Terminal Shell", "servers">>

isRunning(r) == r.intervalId # 0

\* safeSetPresence: nothing without a client user
safeSetPresence(r, name) ==
  IF r.clientOk /\ r.ready
  THEN [r |-> [r EXCEPT !.updates = r.updates + 1],
        fx |-> <<[kind |-> "setPresence", name |-> name]>>]
  ELSE [r |-> r, fx |-> <<>>]

\* tickRotation on the indexRef of timer t
tickRotation(r, t) ==
  LET value == r.timers[t]
      set == safeSetPresence(r, statuses[(value % Len(statuses)) + 1])
  IN [r |-> [set.r EXCEPT !.timers[t] = (value + 1) % Len(statuses)], fx |-> set.fx]

\* startRotation: nothing when an interval is set; else one tick at once
\* on a fresh indexRef and a new interval
startRotation(r) ==
  IF r.intervalId # 0 THEN [r |-> r, fx |-> <<>>]
  ELSE LET t == r.started + 1
           fresh == [r EXCEPT !.timers = Append(r.timers, 0), !.started = t]
           ticked == tickRotation(fresh, t)
       IN [r |-> [ticked.r EXCEPT !.intervalId = t], fx |-> ticked.fx]

\* The intervals that still fire: set and not cleared (-1 marks a cleared one)
ActiveTimers(r) == {t \in 1..Len(r.timers) : r.timers[t] # -1}

\* stopRotation: clears the interval if one is set
stopRotation(r) ==
  IF r.intervalId # 0
  THEN [r EXCEPT !.timers[r.intervalId] = -1, !.intervalId = 0]
  ELSE r

RotFrame ==
  UNCHANGED <<policyVars, dispatchVars, firewallVars, renderVars, nick, hackVars, storeVars, cli>>

\* The module function is called: clientOk FALSE is a client on which the
\* readiness test throws, legacy is ALLOW_LEGACY_READY=1
StatusInit(clientOk, isReady, legacy) ==
  /\ rot.pc = "idle"
  /\ clientOk \/ ~isReady
  /\ LET r == [rot EXCEPT !.pc = "constructed", !.clientOk = clientOk, !.ready = isReady]
         res == IF ~clientOk \/ isReady THEN startRotation(r)
                ELSE [r |-> [r EXCEPT !.listeners =
                                {"clientReady"} \cup (IF legacy THEN {"ready"} ELSE {})],
                      fx |-> <<>>]
     IN /\ rot' = res.r
        /\ fx' = <<[kind |-> "status", step |-> "init"]>> \o res.fx
  /\ RotFrame

\* The client emits one of its ready events: startOnce, if it listens,
\* removes both listeners and queues the start
ClientEmits(name) ==
  /\ rot.pc = "constructed" /\ rot.clientOk
  /\ name \notin rot.emitted
  /\ rot' = IF name \in rot.listeners
            THEN [rot EXCEPT !.ready = TRUE, !.emitted = @ \cup {name},
                             !.listeners = {}, !.pendingStart = @ + 1]
            ELSE [rot EXCEPT !.ready = TRUE, !.emitted = @ \cup {name}]
  /\ fx' = <<[kind |-> "status", step |-> name]>>
  /\ RotFrame

\* The queued nextTick callback runs
NextTickStart ==
  /\ rot.pendingStart > 0
  /\ LET res == startRotation([rot EXCEPT !.pendingStart = @ - 1])
     IN /\ rot' = res.r
        /\ fx' = <<[kind |-> "status", step |-> "nextTick"]>> \o res.fx
  /\ RotFrame

\* An interval fires
TimerTick(t) ==
  /\ t \in ActiveTimers(rot)
  /\ rot.updates < MaxUpdates
  /\ LET res == tickRotation(rot, t)
     IN /\ rot' = res.r
        /\ fx' = <<[kind |-> "status", step |-> "tick"]>> \o res.fx
  /\ RotFrame

\* stop() is called on the returned object
StatusStop ==
  /\ rot.pc = "constructed"
  /\ rot' = [stopRotation(rot) EXCEPT !.stopped = TRUE]
  /\ fx' = <<[kind |-> "status", step |-> "stop"]>>
  /\ RotFrame

NextStatus ==
  \/ \E clientOk, isReady, legacy \in BOOLEAN : StatusInit(clientOk, isReady, legacy)
  \/ \E name \in {"clientReady", "ready"} : ClientEmits(name)
  \/ NextTickStart
  \/ \E t \in 1..2 : TimerTick(t)
  \/ StatusStop

\* ------------------------------------------------------------------------
\* Initial state and the dispatcher specification
\* ------------------------------------------------------------------------
Init ==
  /\ disabledChannels = EmptyMap
  /\ enabledChannels = EmptyMap
  /\ clock = 0
  /\ lastUsed = EmptyMap
  /\ cwdPerUser = EmptyMap
  /\ historyPerUser = EmptyMap
  /\ filesPerUser = EmptyMap
  /\ USER_STATE = EmptyMap
  /\ firewallMap = EmptyMap
  /\ everProtected = {}
  /\ protectRun = 0
  /\ rj = [j \in JobIds |-> IdleJob]
  /\ messages = EmptyMap
  /\ nick = [u \in Users |-> <<u>>]
  /\ hk = IdleHack
  /\ bg = IdleBg
  /\ disk = EmptyMap
  /\ sv = [j \in SaveJobs |-> IdleSave]
  /\ cli = IdleCli
  /\ rot = InitialRot
  /\ fx = <<>>

vars == <<policyVars, dispatchVars, firewallVars, renderVars, nick, hackVars, moduleVars, fx>>

Next ==
  \/ \E m \in Messages(DispatchGuilds, DispatchChannels, DispatchContents) : MessageCreate(m)
  \/ \E i \in DispatchToggles : ToggleInteraction(i)
  \/ \E d \in Delays : Tick(d)

Spec == Init /\ [][Next]_vars

\* The firewall handler on its own: any /help and /firewall traffic
NextFirewall == \E i \in Interactions : InteractionCreate(i)

SpecFirewall == Init /\ [][NextFirewall]_vars

SpecRender == Init /\ [][NextRender]_vars

SpecTyping == Init /\ [][NextTyping]_vars

\* Every send, edit, fetch and setNickname eventually settles and every
\* sleep eventually elapses
SpecRenderFair ==
  /\ SpecRender
  /\ WF_vars(\E j \in SoloJobs, ok \in BOOLEAN : RenderSettle(j, ok))
  /\ WF_vars(\E j \in SoloJobs : RenderWake(j))

SpecHack == Init /\ [][NextHack]_vars

SpecDispatch == Init /\ [][NextDispatch]_vars

\* The storage commands on a filesystem that holds files of both users
InitStoreCmd ==
  /\ disabledChannels = EmptyMap
  /\ enabledChannels = EmptyMap
  /\ clock = 0
  /\ lastUsed = EmptyMap
  /\ cwdPerUser = EmptyMap
  /\ historyPerUser = EmptyMap
  /\ filesPerUser = EmptyMap
  /\ USER_STATE = EmptyMap
  /\ firewallMap = EmptyMap
  /\ everProtected = {}
  /\ protectRun = 0
  /\ rj = [j \in JobIds |-> IdleJob]
  /\ messages = EmptyMap
  /\ nick = [u \in Users |-> <<u>>]
  /\ hk = IdleHack
  /\ bg = IdleBg
  /\ disk = SeededDisk
  /\ sv = [j \in SaveJobs |-> IdleSave]
  /\ cli = IdleCli
  /\ rot = InitialRot
  /\ fx = <<>>

SpecStoreCmd == InitStoreCmd /\ [][NextStoreCmd]_vars

SpecSave == Init /\ [][NextSave]_vars

SpecCli == Init /\ [][NextCli]_vars

SpecStatus == Init /\ [][NextStatus]_vars

SpecSaveConc == Init /\ [][NextSaveConc]_vars

\* The command lookup on its own: one user and the bot typing any of the
\* lookup texts, in a guild channel or a direct message, as time passes
LookupMessages ==
  {m \in Messages(DispatchGuilds, DispatchChannels, LookupContents) : m.author # "u2"}

NextLookup ==
  \/ \E m \in LookupMessages : MessageCreate(m)
  \/ \E d \in Delays : Tick(d)

SpecLookup == Init /\ [][NextLookup]_vars

\* ------------------------------------------------------------------------
\* The toggle module on its own: any whitelist handed in by opts, any
\* /toggle traffic in any guild
\* ------------------------------------------------------------------------
InitToggle ==
  /\ disabledChannels = EmptyMap
  /\ enabledChannels \in MapsTo(Guilds, SUBSET Channels)
  /\ clock = 0
  /\ lastUsed = EmptyMap
  /\ cwdPerUser = EmptyMap
  /\ historyPerUser = EmptyMap
  /\ filesPerUser = EmptyMap
  /\ USER_STATE = EmptyMap
  /\ firewallMap = EmptyMap
  /\ everProtected = {}
  /\ protectRun = 0
  /\ rj = [j \in JobIds |-> IdleJob]
  /\ messages = EmptyMap
  /\ nick = [u \in Users |-> <<u>>]
  /\ hk = IdleHack
  /\ bg = IdleBg
  /\ disk = EmptyMap
  /\ sv = [j \in SaveJobs |-> IdleSave]
  /\ cli = IdleCli
  /\ rot = InitialRot
  /\ fx = <<>>

NextToggle == \E i \in ToggleInteractions : ToggleInteraction(i)

SpecToggle == InitToggle /\ [][NextToggle]_vars

\* The toggle module next to the dispatcher: /toggle traffic of any member
\* in any guild, and a user typing $ping in a guild channel
PolicyMessages ==
  {m \in Messages(DispatchGuilds, DispatchChannels, {<<"$", "p", "i", "n", "g">>}) :
     m.author = "u1" /\ m.guildId # NoGuild}
NextPolicy ==
  \/ \E i \in ToggleInteractions : ToggleInteraction(i)
  \/ \E m \in PolicyMessages : MessageCreate(m)

SpecPolicy == Init /\ [][NextPolicy]_vars

\* ------------------------------------------------------------------------
\* Properties
\* ------------------------------------------------------------------------
\* The step just taken handled the messageCreate event m.
Handled(f, m) == f # <<>> /\ f[1].kind = "message" /\ f[1].m = m
HasKind(f, k) == \E j \in 1..Len(f) : f[j].kind = k
DispatchMessages == Messages(DispatchGuilds, DispatchChannels, DispatchContents)
Prefixed(m) == ~IsBot(m) /\ StartsWith(m.content, PREFIX)
InWindow(m) == Has(lastUsed, m.author) /\ clock - lastUsed[m.author] < COOLDOWN

C2_Ignored ==
  [][\A m \in DispatchMessages :
       (Handled(fx', m) /\ Prefixed(m) /\ m.guildId # NoGuild
          /\ ~isChannelEnabled(m.guildId, m.channelId))
         => (Len(fx') = 1 /\ UNCHANGED <<lastUsed, sessionVars, USER_STATE>>)]_vars

InDisabled(g, c) == Has(disabledChannels, g) /\ c \in disabledChannels[g]
Whitelist(g) == IF Has(enabledChannels, g) THEN enabledChannels[g] ELSE {}

\* C3: a channel in the disabled set of its guild is never enabled, whatever
\* the whitelist of the guild holds.
C3_DisabledWins ==
  \A g \in Guilds, c \in Channels : InDisabled(g, c) => ~isChannelEnabled(g, c)

\* A channel is both disabled and whitelisted.
C3_Witness ==
  \E g \in Guilds, c \in Channels : InDisabled(g, c) /\ c \in Whitelist(g)

\* C4: with a non-empty whitelist a channel outside it is not enabled even
\* when it is not disabled; with an empty whitelist a channel is enabled
\* exactly when it is not disabled.
C4_Whitelist ==
  \A g \in Guilds, c \in Channels :
    /\ (Whitelist(g) # {} /\ c \notin Whitelist(g)) => ~isChannelEnabled(g, c)
    /\ (Whitelist(g) = {}) => (isChannelEnabled(g, c) <=> ~InDisabled(g, c))

\* After some /toggle traffic a channel is neither disabled nor whitelisted
\* while its guild has a whitelist.
C4_Witness ==
  /\ fx # <<>>
  /\ \E g \in Guilds, c \in Channels :
       /\ Has(disabledChannels, g) /\ ~InDisabled(g, c)
       /\ Whitelist(g) # {} /\ c \notin Whitelist(g)

IsInteraction(f, i) == f # <<>> /\ f[1] = [kind |-> "interaction", i |-> i]
ProtectionSet(m, g) == IF Has(m, g) THEN m[g] ELSE {}

\* C5: /firewall on is idempotent - a second identical /firewall on right
\* after the first leaves the user protected and the store as it was after
\* the first; /firewall off by a user who was never protected is answered
\* with the normal notice (no error) and leaves the user unprotected.
C5_Idempotent ==
  [][\A i \in Interactions :
       (IsInteraction(fx', i) /\ FirewallAccepted(i)) =>
         /\ (i.sub = "on") => isProtected(firewallMap', i.guildId, i.user)
         /\ (i.sub = "on" /\ IsInteraction(fx, i)) => firewallMap' = firewallMap
         /\ (i.sub = "off" /\ <<i.guildId, i.user>> \notin everProtected) =>
              /\ ~isProtected(firewallMap', i.guildId, i.user)
              /\ fx'[2] = Reply("You are no longer protected by the firewall in this server.")]_vars

\* The same /firewall on was handled twice in a row.
C5_Witness ==
  /\ protectRun = 2
  /\ fx # <<>> /\ fx[1].kind = "interaction"
  /\ isProtected(firewallMap, fx[1].i.guildId, fx[1].i.user)

\* C6: the membership of a user in a guild's protection set changes only in
\* a step handling a /firewall interaction invoked by that user in that
\* guild; a /firewall interaction naming another member changes no
\* protection set.
C6_SelfOnly ==
  [][/\ \A g \in Guilds, u \in Users :
          (isProtected(firewallMap', g, u) # isProtected(firewallMap, g, u)) =>
            /\ fx' # <<>> /\ fx'[1].kind = "interaction"
            /\ fx'[1].i.commandName = "firewall"
            /\ fx'[1].i.user = u /\ fx'[1].i.guildId = g
     /\ \A i \in Interactions :
          (IsInteraction(fx', i) /\ i.commandName = "firewall" /\ RequestedUser(i) # i.user) =>
            \A g \in Guilds : ProtectionSet(firewallMap', g) = ProtectionSet(firewallMap, g)]_vars

\* A member asked /firewall off for another, protected member, who stays
\* protected.
C6_Witness ==
  /\ fx # <<>> /\ fx[1].kind = "interaction" /\ fx[1].i.commandName = "firewall"
  /\ fx[1].i.sub = "off" /\ fx[1].i.guildId # NoGuild
  /\ fx[1].i.member \notin {NoMember, fx[1].i.user}
  /\ isProtected(firewallMap, fx[1].i.guildId, fx[1].i.member)


HackReturned == hk.pc = "returned"
NicknameKinds == {"setNickname", "setNicknameCall", "fetchMember"}
\* No nickname change has been applied or is being attempted, and no DM is out
NoHackSideEffects ==
  /\ ~hk.dm
  /\ bg.pc = "idle"
  /\ nick = [u \in Users |-> <<u>>]
  /\ rj[HackJob].pc \notin {"awaitMemberFetch", "awaitRename"}
  /\ \A x \in 1..Len(fx) : fx[x].kind \notin NicknameKinds \cup {"dm"}

\* C7: when sudo hack resolves its target to the invoking author,
\* hackHandler returns the plain rejection text - not a hack-animation
\* object - and neither then nor while that text is rendered is a nickname
\* change issued or a DM sent.
C7_SelfTarget ==
  (HackReturned /\ hk.target = hk.m.author) =>
    /\ rj[HackJob].output = StringOut(SelfTargetText)
    /\ rj[HackJob].mode = "plain"
    /\ NoHackSideEffects

\* The self-targeted hack has been rejected and the rejection fully rendered.
C7_Witness ==
  /\ HackReturned /\ hk.target = hk.m.author
  /\ rj[HackJob].pc = "done" /\ rj[HackJob].outcome = "returned"
  /\ rj[HackJob].edits = 1

\* C8: when the target is protected at the moment hackHandler checks the
\* firewall, the handler returns a hack result carrying an error text and no
\* result record, and that invocation issues neither a nickname change nor a
\* DM, also not while the failure is rendered.
C8_ProtectedBlocked ==
  (HackReturned /\ hk.protAtCheck) =>
    /\ rj[HackJob].output.type = "hack"
    /\ rj[HackJob].output.error = ProtectedError(hk.target)
    /\ rj[HackJob].output.result = NoResult
    /\ NoHackSideEffects

\* A hack of a protected member has been refused and the failure rendered.
C8_Witness ==
  /\ HackReturned /\ hk.protAtCheck
  /\ rj[HackJob].pc = "done" /\ rj[HackJob].outcome = "returned"
  /\ messages[<<HackJob, 2>>] = FailEmbed(ProtectedError(hk.target))

\* C9 as stated: no step applies a cosmetic nickname ('Hacking ...' or
\* 'Hacked') to a member who is in the protection set of the guild at that
\* step, whether the change comes from the background loop or from the
\* renderer's rename.
C9_NoRenameWhileProtected ==
  \A x \in 1..Len(fx) :
    (fx[x].kind = "setNickname") => ~isProtected(firewallMap, fx[x].guild, fx[x].member)

PlainAnimated(r) ==
  r.mode = "plain" /\ r.animate /\ r.output.type \in {"string", "array", "null", "number"}
\* The content of edit k: the prompt followed by lines 1..k
PrefixEmbed(r, k) ==
  BodyEmbed(r.promptLine, Join(SubSeq(NormalizeLines(r.output), 1, k), <<"\n">>))

\* C10: an animated render of a result that normalises to lines l1..ln
\* sends one placeholder and then edits that message n times; edit k shows
\* the prompt followed by l1..lk, and once the last edit has been applied
\* the message shows the prompt followed by all n lines.
C10_AnimatedEdits ==
  \A j \in JobIds :
    LET r == rj[j]
        n == Len(NormalizeLines(r.output))
    IN (PlainAnimated(r) /\ r.msg # NoMsg) =>
         /\ r.sends = 1 /\ r.msg = <<j, 1>> /\ r.edits <= n
         /\ (r.pc = "awaitEdit") =>
              r.pending = <<EditFx(j, [r EXCEPT !.edits = r.edits - 1], r.msg, PrefixEmbed(r, r.edits))>>
         /\ (r.pc = "done") =>
              /\ r.outcome = "returned" /\ r.edits = n
              /\ (n >= 1 /\ fx[1].ok) => messages[r.msg] = PrefixEmbed(r, n)

\* A two-line result has been animated to the end and its last edit applied.
C10_Witness ==
  \E j \in JobIds :
    /\ PlainAnimated(rj[j]) /\ rj[j].pc = "done" /\ rj[j].outcome = "returned"
    /\ rj[j].edits >= 2 /\ fx[1].kind = "settle" /\ fx[1].ok
    /\ NormalizeLines(rj[j].output)[1] # NormalizeLines(rj[j].output)[2]


HackFailing(r) == r.output.type = "hack" /\ r.output.error # <<>> /\ r.msg # NoMsg

\* C11: for a hack result with a non-empty error the renderer shows the
\* progress phrases one after the other, in order, by editing the prompt
\* message, then sends one separate failure message carrying the error
\* text; it types no field, sends no result message and attempts no rename.
C11_HackFailure ==
  \A j \in JobIds :
    LET r == rj[j]
        n == Len(r.output.progress)
    IN HackFailing(r) =>
         /\ r.pc \in {"awaitProgressEdit", "progressSleep", "awaitReturnedSend", "done"}
         /\ r.msg = <<j, 1>> /\ r.outMsg = NoMsg /\ r.fi = 0
         /\ \A x \in 1..Len(fx) : fx[x].kind \notin NicknameKinds
         /\ (r.pc \in {"awaitProgressEdit", "progressSleep"}) =>
              /\ r.p < n /\ r.edits = r.p + 1 /\ r.sends = 1
              /\ r.embed = BodyEmbed(r.promptLine, r.output.progress[r.p + 1])
         /\ (r.pc = "awaitProgressEdit") =>
              r.pending = <<EditFx(j, [r EXCEPT !.edits = r.p], r.msg, r.embed)>>
         /\ (r.pc = "awaitReturnedSend") =>
              /\ r.edits = n /\ r.sends = 2
              /\ r.pending = <<SendFx(j, r, <<j, 2>>, FailEmbed(r.output.error))>>
         /\ (r.pc = "done") => r.edits = n /\ r.sends = 2

\* A failing hack that also carries a result record has been rendered: its
\* progress phrase was shown and the failure message delivered.
C11_Witness ==
  \E j \in JobIds :
    /\ HackFailing(rj[j]) /\ rj[j].output.result.present
    /\ rj[j].pc = "done" /\ rj[j].outcome = "returned" /\ rj[j].edits >= 1
    /\ Has(messages, <<j, 2>>) /\ messages[<<j, 2>>] = FailEmbed(<<"blocked">>)


\* A staged hack render whose result record names a guild and a member
HackRenaming(r) ==
  /\ r.mode = "hack" /\ r.output.type = "hack" /\ r.output.error = <<>>
  /\ r.final.present /\ r.final.guildId # NoGuild /\ r.final.targetMemberId # NoMember
TypingPcs ==
  {"awaitOutSend", "awaitCharEdit", "charSleep", "awaitFinalizeEdit", "fieldSleep",
   "awaitLastEdit"}

\* C12 as stated: the rename attempt of the staged hack animation is made
\* only once every typed field has been fully revealed.
C12_AsStated ==
  \A j \in JobIds :
    (HackRenaming(rj[j]) /\ rj[j].pc = "awaitRename") =>
      /\ rj[j].outMsg # NoMsg
      /\ rj[j].fi > Len(rj[j].final.typedFields)

\* C12 amended: the member fetch and the rename attempt come right after the
\* progress phrases, before the result message exists and so before any
\* field is typed; the result message is sent only once that attempt has
\* settled; the single final edit that sets the Rename status comes after
\* every field has been typed.
C12_RenameBeforeTyping ==
  [][\A j \in JobIds :
       LET r == rj[j]
           q == rj'[j]
       IN HackRenaming(q) =>
            /\ (q.pc \in {"awaitMemberFetch", "awaitRename"}) =>
                 /\ q.outMsg = NoMsg /\ q.fi = 0 /\ q.sends = 1
                 /\ q.edits = Len(q.output.progress)
            /\ (q.pc = "awaitOutSend" /\ r.pc # "awaitOutSend") =>
                 r.pc \in {"awaitMemberFetch", "awaitRename"}
            /\ (q.pc \in TypingPcs) =>
                 \A x \in 1..Len(fx') : fx'[x].kind \notin {"setNicknameCall", "fetchMember"}
            /\ (q.pc = "awaitLastEdit") =>
                 /\ q.fi = Len(q.final.typedFields) + 1
                 /\ \E x \in 1..Len(q.resultEmbed.fields) :
                      q.resultEmbed.fields[x] = RenameFinal(q.final)]_vars

\* A staged hack render has renamed its target, typed its fields and made
\* its final edit.
C12_Witness ==
  \E j \in JobIds :
    /\ HackRenaming(rj[j]) /\ rj[j].pc = "done" /\ rj[j].final.renamed
    /\ rj[j].outMsg # NoMsg /\ rj[j].fi = Len(rj[j].final.typedFields) + 1
    /\ nick[rj[j].final.targetMemberId] = <<"Hacked">>


JobDone(r) == r.pc = "done"
\* The invocation of r failed: its handler threw, or its render threw or
\* rejected
JobFailed(r) == JobDone(r) /\ r.outcome \in {"caught", "fallback", "rejected"}

FailedAt(j, pcs) ==
  /\ fx # <<>> /\ fx[1].kind = "settle" /\ fx[1].job = j
  /\ ~fx[1].ok /\ fx[1].pc \in pcs
EditPcs ==
  {"awaitEdit", "awaitFullEdit", "awaitProgressEdit", "awaitCharEdit", "awaitFinalizeEdit",
   "awaitLastEdit"}
SwallowedEditPcs == EditPcs \ {"awaitFullEdit"}
ClaimedModes(r) == r.mode \in {"plain", "hack"}

\* C14 as stated: in animated, non-animated and staged hack renders a
\* rejected edit never leads to a fallback send, and a fallback send is
\* made only when the initial send of the render failed.
C14_AsStated ==
  \A j \in JobIds :
    ClaimedModes(rj[j]) =>
      /\ FailedAt(j, EditPcs) => (rj[j].pc # "awaitFallback" /\ rj[j].fallbacks = 0)
      /\ (rj[j].pc = "awaitFallback") => (FailedAt(j, {"awaitSend"}) /\ rj[j].sends = 2)

\* C14 amended: a rejected edit of the animated plain loop or of the staged
\* hack animation is swallowed and the render goes on without a fallback;
\* a rejected edit of a non-animated render, a failed first send and a
\* failed result-message send each abort the render with one fallback plain
\* send of the result; no render makes more than one fallback send.
C14_EditFailures ==
  \A j \in JobIds :
    LET r == rj[j] IN
    ClaimedModes(r) =>
      /\ r.fallbacks <= 1
      /\ FailedAt(j, SwallowedEditPcs) =>
           /\ r.fallbacks = 0
           /\ r.pc \in {"sleep", "progressSleep", "charSleep", "fieldSleep", "done"}
           /\ (r.pc = "done") => r.outcome = "returned"
      /\ FailedAt(j, {"awaitFullEdit", "awaitSend", "awaitOutSend"}) =>
           /\ r.pc = "awaitFallback" /\ r.fallbacks = 1
           /\ r.pending = <<SendFx(j, r, <<j, r.sends>>, PlainContent(FallbackText(r.output)))>>
      /\ (r.pc = "awaitFallback") => FailedAt(j, {"awaitFullEdit", "awaitSend", "awaitOutSend"})

\* An animated render went on to its last line although an earlier edit
\* had been rejected.
C14_Witness ==
  \E j \in JobIds :
    /\ rj[j].mode = "plain" /\ rj[j].animate /\ FailedAt(j, {"awaitEdit"})
    /\ rj[j].pc = "sleep" /\ rj[j].edits >= 1 /\ Len(rj[j].chunk) = rj[j].edits + 1
    /\ Has(messages, rj[j].msg) /\ messages[rj[j].msg] = PromptEmbed(rj[j].promptLine)


\* The edits the step just taken has issued for job j
EditsIssued(f, j) == { x \in 1..Len(f) : f[x].kind = "edit" /\ f[x].job = j }
InFlight(r) == r.pc \notin {"idle", "awaitHandler", "done"}

\* C15: with two renders in flight, a render issues its next edit only in
\* a step of its own taken after its previous call has settled, its edits
\* are numbered consecutively and carry its own buffers in order, each edit
\* goes to a message that this render created, and a step of one render
\* leaves the other render untouched.
C15_OwnSequence ==
  [][\A j \in JobIds :
       LET r == rj[j]
           q == rj'[j]
       IN /\ (q # r) => \A k \in JobIds \ {j} : rj'[k] = rj[k]
          /\ \A x \in EditsIssued(fx', j) :
               LET e == fx'[x] IN
               /\ q # r
               /\ (r.pc \in AwaitPcs) => fx'[1] = [kind |-> "settle", job |-> j, pc |-> r.pc, ok |-> fx'[1].ok]
               /\ e.n = r.edits + 1 /\ q.edits = e.n
               /\ e.msg[1] = j /\ e.msg \in {q.msg, q.outMsg} /\ e.msg[2] <= q.sends
               /\ (PlainAnimated(q)) => e.content = PrefixEmbed(q, e.n)
               /\ (q.mode = "hack" /\ q.pc = "awaitProgressEdit") =>
                    e.content = BodyEmbed(q.promptLine, q.output.progress[e.n])]_vars

\* Two renders are in flight at once, each with an edit behind it.
C15_Witness ==
  /\ InFlight(rj["j1"]) /\ InFlight(rj["j2"])
  /\ rj["j1"].edits >= 1 /\ rj["j2"].edits >= 1
  /\ rj["j1"].pc = "sleep" /\ rj["j2"].pc = "awaitProgressEdit"


\* C16: every render that has been started eventually returns, whichever of
\* its sends and edits succeed or fail, given that each call it awaits
\* eventually settles and each pause eventually ends.
C16_Terminates ==
  \A j \in SoloJobs : (rj[j].pc # "idle") ~> (rj[j].pc = "done")

\* A staged hack render with typed fields has run to its end.
C16_Witness ==
  \E j \in SoloJobs :
    /\ rj[j].pc = "done" /\ rj[j].mode = "hack" /\ rj[j].outMsg # NoMsg
    /\ rj[j].sends = 2 /\ rj[j].edits > Len(rj[j].output.progress) + Len(rj[j].final.typedFields)


\* C17: a message rejected for cooldown causes exactly one informational
\* message and nothing else: the author's lastUsed timestamp, command
\* history, working directory and fake-file set, and every other piece of
\* state, stay as they were.
C17_NoOtherEffect ==
  [][\A m \in DispatchMessages :
       (Handled(fx', m) /\ DispatchOutcome(m) = "cooldown")
         => /\ fx' = <<[kind |-> "message", m |-> m], Send(m.channelId, CooldownNotice)>>
            /\ UNCHANGED <<lastUsed, historyPerUser, cwdPerUser, filesPerUser>>
            /\ UNCHANGED USER_STATE]_vars


\* What the index.js listener did in the step just taken: its sends, handler
\* invocations and logged errors (the storage listener only sends direct
\* messages and calls the storage API).
DispatcherFx(f) ==
  LET IsOurs(e) == e.kind \in {"send", "invoke", "log"} IN SelectSeq(f, IsOurs)
\* The message passed the bot, prefix, channel and cooldown gates and names a
\* command.
Accepted(m) ==
  /\ Prefixed(m)
  /\ m.guildId # NoGuild => isChannelEnabled(m.guildId, m.channelId)
  /\ ~InWindow(m)
  /\ Trim(Tail(m.content)) # <<>>
FirstToken(m) == ToLowerCase(SplitWs(Trim(Tail(m.content)))[1])

\* C18: for an accepted prefixed message whose lower-cased first token is
\* not a registered command the dispatcher invokes no handler, logs no error
\* and sends exactly one message, the code block "<cmd>: command not found".
C18_NotFound ==
  [][\A m \in LookupMessages :
       (Handled(fx', m) /\ Accepted(m) /\ FirstToken(m) \notin RegisteredCommands)
         => DispatcherFx(fx') =
              <<Send(m.channelId,
                     <<Backtick, Backtick, Backtick, "text", "\n">> \o FirstToken(m)
                       \o <<": command not found">> \o <<"\n", Backtick, Backtick, Backtick>>)>>]_vars

\* An unknown command typed in capitals was answered in lower case.
C18_Witness ==
  /\ fx # <<>> /\ fx[1].kind = "message"
  /\ fx[1].m.content = <<"$", "F", "s", " ", "x">>
  /\ Len(fx) = 2 /\ fx[2].kind = "send"
  /\ fx[2].text = FenceOpen \o <<"f", "s", ": command not found">> \o FenceClose


\* The invocation is the hack sub-invocation of sudo: the command is sudo and
\* the first word after it is "hack".
IsSudoHack(e) ==
  /\ e.cmd = <<"s", "u", "d", "o">>
  /\ e.args # <<>> /\ ToLowerCase(e.args[1]) = <<"h", "a", "c", "k">>

\* C19: the renderer is given a delay of 120 ms exactly when the invocation
\* is `sudo hack ...`, 140 ms with animation for every other command but
\* help, and no animation for help.
C19_DelaySelection ==
  \A j \in 1..Len(fx) :
    fx[j].kind = "invoke" =>
      /\ (fx[j].delay = 120) <=> IsSudoHack(fx[j])
      /\ (~IsSudoHack(fx[j]) /\ fx[j].cmd # <<"h", "e", "l", "p">>)
           => (fx[j].delay = 140 /\ fx[j].animate)
      /\ fx[j].cmd = <<"h", "e", "l", "p">> => ~fx[j].animate


\* The part of a prompt line that follows its "<user>@terminal:<cwd>$ " head
PromptHead(e, m) ==
  <<m.author, "@", "terminal", ":">> \o cwdPerUser[m.author] \o <<"$", " ">>
UserPart(e, m) == SubSeq(e.promptLine, Len(PromptHead(e, m)) + 1, Len(e.promptLine))
\* t with the backslash in front of each backtick taken out
RECURSIVE Unescape(_)
Unescape(t) ==
  IF t = <<>> THEN <<>>
  ELSE IF Len(t) >= 2 /\ t[1] = Backslash /\ t[2] = Backtick
       THEN <<Backtick>> \o Unescape(Tail(Tail(t)))
       ELSE <<Head(t)>> \o Unescape(Tail(t))

\* C20: the prompt line handed to the renderer is
\* "<user>@terminal:<cwd>$ " followed by the original text in which every
\* backtick is preceded by a backslash, so no two backticks of the user's
\* text stay adjacent and taking the added backslashes out gives the
\* original text back.
C20_PromptEscaped ==
  \A j \in 1..Len(fx) :
    fx[j].kind = "invoke" =>
      LET e == fx[j]
          m == fx[1].m
          u == UserPart(e, m)
      IN /\ StartsWith(e.promptLine, PromptHead(e, m))
         /\ \A i \in 1..Len(u) : u[i] = Backtick => (i > 1 /\ u[i - 1] = Backslash)
         /\ Unescape(u) = m.content

\* A text with two backticks in a row reached the renderer's prompt line.
C20_Witness ==
  /\ Len(fx) >= 2 /\ fx[1].kind = "message" /\ fx[2].kind = "invoke"
  /\ \E i \in 1..(Len(fx[1].m.content) - 1) :
       fx[1].m.content[i] = Backtick /\ fx[1].m.content[i + 1] = Backtick


\* C21: a save whose data does not fit (usedBytes + size > quotaBytes at the
\* call) ends with QuotaExceeded, by buffer or by stream, and leaves the
\* files on disk, names and sizes, exactly as they were before the call.
C21_QuotaExceeded ==
  \A j \in SoloSave :
    (sv[j].pc = "done" /\ sv[j].usedAtCall + sv[j].size > quotaBytes)
      => (sv[j].outcome = "QuotaExceeded" /\ disk = sv[j].before)

\* A stream save was rejected although files were already stored.
C21_Witness ==
  \E j \in SoloSave :
    /\ sv[j].pc = "done" /\ sv[j].kind = "stream" /\ sv[j].outcome = "QuotaExceeded"
    /\ sv[j].usedAtCall > 0 /\ sv[j].usedAtCall + sv[j].size > quotaBytes


\* C22: whenever no save is in progress, the files of each user take up at
\* most quotaBytes, whatever saves have run and however their steps were
\* interleaved (the directory starts empty).
C22_WithinQuota ==
  (\A j \in SaveJobs : sv[j].pc \in {"idle", "done"})
    => \A u \in SaveUsers : usedBytes(disk, u) <= quotaBytes


\* C29: a save is accepted exactly when the usage at the call plus the size
\* of the data is at most quotaBytes, by stream as by buffer.
C29_SameDecision ==
  \A j \in SoloSave :
    sv[j].pc = "done"
      => ((sv[j].outcome = "saved") <=> (sv[j].usedAtCall + sv[j].size <= quotaBytes))


\* C23: for two distinct users u and v, a listing asked for by u never
\* returns entries of v's directory and a removal asked for by u never
\* deletes a file under v's directory.
C23_UserIsolation ==
  \A k \in 1..Len(fx) : \A v \in Users :
    (fx[k].kind \in {"listed", "unlink"} /\ v # fx[k].user)
      => /\ fx[k].kind = "listed"
              => ~(fx[k].entries # {}
                   /\ (fx[k].dir = userDir(v) \/ InDir(fx[k].dir, userDir(v))))
         /\ fx[k].kind = "unlink"
              => ~(fx[k].outcome = "removed" /\ InDir(fx[k].path, userDir(v)))


DisabledSet(dm, g) == IF Has(dm, g) THEN dm[g] ELSE {}
Permitted(i) == i.perms \in {"ManageGuild", "Administrator"}

\* C24: a /toggle interaction of a member with neither ManageGuild nor
\* Administrator, and any /toggle list, leave the disabled map and the
\* whitelist as they are; the disabled set of a guild changes only in a step
\* that handles /toggle enable or /toggle disable of a permitted member in
\* that guild.
C24_PermittedOnly ==
  [][/\ \A i \in ToggleInteractions :
          (fx' # <<>> /\ fx'[1] = [kind |-> "toggle", i |-> i]
             /\ (~Permitted(i) \/ i.sub = "list"))
            => UNCHANGED policyVars
     /\ \A g \in Guilds :
          DisabledSet(disabledChannels', g) # DisabledSet(disabledChannels, g)
            => /\ fx' # <<>> /\ fx'[1].kind = "toggle"
               /\ fx'[1].i.guildId = g /\ Permitted(fx'[1].i)
               /\ fx'[1].i.sub \in {"enable", "disable"}
     /\ enabledChannels' = enabledChannels]_vars

\* A member without permission asked to disable a channel of a guild in
\* which another channel is disabled, and the channel stayed out of the set.
C24_Witness ==
  /\ fx # <<>> /\ fx[1].kind = "toggle"
  /\ fx[1].i.perms = "none" /\ fx[1].i.sub = "disable" /\ fx[1].i.isText
  /\ fx[1].i.guildId \in Guilds
  /\ DisabledSet(disabledChannels, fx[1].i.guildId) # {}
  /\ fx[1].i.channel \notin DisabledSet(disabledChannels, fx[1].i.guildId)


\* The step just taken handled /toggle enable or disable of a permitted
\* member for a text channel of a guild.
ToggleHandled(sub) ==
  /\ fx # <<>> /\ fx[1].kind = "toggle"
  /\ Permitted(fx[1].i) /\ fx[1].i.guildId \in Guilds /\ fx[1].i.isText
  /\ fx[1].i.sub = sub

ItemTexts(items) == [i \in 1..Len(items) |-> IF items[i].isString THEN items[i].s ELSE <<>>]
\* The lines of a plain result, read off the text as a whole: the pieces
\* between the newlines of the string, or of the elements put one per line
ExpectedLines(output) ==
  IF output.type = "string" THEN SplitOn(output.s, "\n")
  ELSE IF output.type = "array"
       THEN IF output.items = <<>> THEN <<>>
            ELSE SplitOn(Join(ItemTexts(output.items), <<"\n">>), "\n")
  ELSE <<<<>>>>

\* C27: the renderer turns a string into its newline-split pieces, an array
\* into the newline-split pieces of its elements one after the other (an
\* element that is not a string gives one empty line), and null into the
\* single empty line, keeping the order: joined by newlines the lines give
\* the text back.
C27_LineNormalisation ==
  \A j \in SoloJobs :
    (rj[j].mode = "plain" /\ rj[j].output.type \in {"string", "array", "null"})
      => /\ rj[j].lines = ExpectedLines(rj[j].output)
         /\ rj[j].output.type = "string" => Join(rj[j].lines, <<"\n">>) = rj[j].output.s
         /\ rj[j].output.type = "null" => rj[j].lines = <<<<>>>>

\* An array of two elements, one of them holding a newline, became three
\* lines.
C27_Witness ==
  \E j \in SoloJobs :
    /\ rj[j].mode = "plain" /\ rj[j].output.type = "array"
    /\ Len(rj[j].output.items) = 2 /\ Len(rj[j].lines) = 3


\* The value a typed field shows, the cursor glyph at its end taken off
Uncursored(v) ==
  IF v # <<>> /\ v[Len(v)] = TYPING_CURSOR THEN SubSeq(v, 1, Len(v) - 1) ELSE v
\* v is the first characters of value, limit of them at most
PrefixWithin(v, value, limit) ==
  /\ Len(v) <= limit /\ Len(v) <= Len(value)
  /\ \A k \in 1..Len(v) : v[k] = value[k]
\* v is value in full, cut to limit characters, and holds no cursor glyph
CompleteWithin(v, value, limit) ==
  /\ PrefixWithin(v, value, limit)
  /\ Len(v) = limit \/ Len(v) = Len(value)
  /\ \A k \in 1..Len(v) : v[k] # TYPING_CURSOR
\* Job j has just issued an edit of the typing of its field rj[j].fi
TypingEdit(j) ==
  /\ rj[j].mode = "hack"
  /\ rj[j].pc \in {"awaitCharEdit", "awaitFinalizeEdit"}
  /\ \E k \in 1..Len(fx) : fx[k].kind = "edit" /\ fx[k].job = j
\* The edit of job j in the effects of the last step
IssuedEdit(j) ==
  fx[CHOOSE k \in 1..Len(fx) : fx[k].kind = "edit" /\ fx[k].job = j].content
FieldReveal(j) ==
  LET typed == rj[j].final.typedFields
      shown == IssuedEdit(j).fields
      fi == rj[j].fi
  IN /\ Len(shown) = Len(typed) + 1
     /\ \A x \in 1..Len(typed) :
          /\ x < fi => CompleteWithin(shown[x].value, typed[x].value, MaxFieldLen)
          /\ x > fi => shown[x].value = BlankValue
          /\ x = fi => PrefixWithin(Uncursored(shown[x].value), typed[x].value, MaxFieldLen)
\* The typing of the next field starts in this step
NextFieldStarts(j) ==
  /\ rj[j].mode = "hack" /\ rj[j].fi >= 1
  /\ rj'[j].mode = "hack" /\ rj'[j].fi = rj[j].fi + 1

\* C28: every edit issued while typed field i is revealed shows the fields
\* before i in full (cut to 1024 characters) and without the cursor glyph,
\* the fields after i as the blank placeholder, and field i as a prefix of
\* its value of at most 1024 characters, with or without the cursor glyph at
\* its end; and the typing moves on to field i+1 only when the last edit
\* issued shows field i in full without the cursor glyph.
C28_FieldReveal ==
  /\ [](\A j \in SoloJobs : TypingEdit(j) => FieldReveal(j))
  /\ [][\A j \in SoloJobs :
          NextFieldStarts(j) =>
            CompleteWithin(rj[j].resultEmbed.fields[rj[j].fi].value,
                           rj[j].final.typedFields[rj[j].fi].value, MaxFieldLen)]_vars

\* The second field is being typed with the cursor glyph shown, after a
\* first field of more than 1024 characters that the edit shows cut to 1024.
C28_Witness ==
  \E j \in SoloJobs :
    /\ TypingEdit(j) /\ rj[j].fi = 2 /\ rj[j].pc = "awaitCharEdit"
    /\ Len(rj[j].final.typedFields[1].value) > MaxFieldLen
    /\ Len(IssuedEdit(j).fields[1].value) = MaxFieldLen
    /\ IssuedEdit(j).fields[2].value = <<"7", TYPING_CURSOR>>


\* The credentials a script needs: the token, and for remove-commands the
\* application id as well
MissingCredential(c) == ~c.TOKEN \/ (c.script = "remove" /\ ~c.CLIENT_ID)

\* C25: a run of either utility ends with exit code 1 when a credential it
\* needs is missing or when one of its API calls failed, and with exit code 0
\* when its operation went through.
C25_ExitCodes ==
  cli.pc = "exited" =>
    /\ MissingCredential(cli) => cli.exitCode = 1
    /\ cli.apiFailed => cli.exitCode = 1
    /\ cli.completed => cli.exitCode = 0


\* C30: from the first call of stop() on, isRunning() is false and no
\* presence update is issued, whether stop() came after the rotation had
\* started or before the client was ready; and there is never more than one
\* rotation interval active.
C30_StopIsFinal ==
  /\ [](rot.stopped => ~isRunning(rot))
  /\ [][rot.stopped => rot'.updates = rot.updates]_vars
  /\ [](Cardinality(ActiveTimers(rot)) <= 1)

====
